---- MODULE Spec2Model ----
(***************************************************************************)
(* Model of the quiz application's session state machine and its           *)
(* persistence protocol: quiz identity keys (useQuizStateManagement.ts),   *)
(* the saved-state store (saveQuizState / loadQuizState), the session      *)
(* engine (Quiz.tsx) and the completed-attempt history (App.tsx).          *)
(*                                                                         *)
(* Conventions.  A JavaScript string on which the code works character by  *)
(* character (course ids, topic ids, storage keys) is a sequence of        *)
(* one-character strings.  A JavaScript value whose type the code inspects *)
(* (typeof, Array.isArray, instanceof Set) is a record with a tag t:       *)
(*   [t |-> "null"], [t |-> "undef"], [t |-> "num", v |-> n],              *)
(*   [t |-> "str", v |-> s], [t |-> "arr", v |-> <<...>>],                 *)
(*   [t |-> "set", v |-> <<...>>]  (a Set, in insertion order, no          *)
(*   duplicates), [t |-> "obj"] (an object without the fields read).       *)
(***************************************************************************)
EXTENDS Integers, Sequences, FiniteSets, TLC

VARIABLES
    storage,            \* localStorage: key -> stored string
    inProgressQuizzes,  \* the in-memory index of the application's useQuizStateManagement
    resultsHistory,     \* App: the history state of useLocalStorage('quizResults')
    now,                \* the clock: what Date.now() returns
    calls,              \* the calls made directly to an operation, with their results
    route,              \* the page the router shows: "home", "quiz" or "results"
    quizConfig,         \* Quiz: the quizConfig prop of the mounted Quiz
    quizHookIndex,      \* Quiz: the in-memory index of its own useQuizStateManagement
    currentQuestions,   \* Quiz: the questions of the session, in session order
    currentQuestionIndex,         \* Quiz: 0-based
    userAnswers,        \* Quiz: null, a string or a Set per question
    startTime,          \* Quiz: null or a number
    showFeedbackForSingleChoice,  \* Quiz
    answerStatuses,     \* Quiz: "correct", "incorrect" or "null" per question
    checkedAnswers,     \* Quiz: a boolean per question
    isLoaded,           \* Quiz
    emitted,            \* the last call of onComplete: its argument, and the session it came from
    finished            \* the configs finished and not mounted again since

storeVars == <<storage, inProgressQuizzes>>
histVars == <<resultsHistory, now>>
quizVars ==
    <<route, quizConfig, quizHookIndex, currentQuestions, currentQuestionIndex, userAnswers,
      startTime, showFeedbackForSingleChoice, answerStatuses, checkedAnswers, isLoaded,
      emitted, finished>>
vars == <<storage, inProgressQuizzes, resultsHistory, now, calls, quizVars>>

\* ------------------------------------------------------------------------
\* Bounds of the model
\* ------------------------------------------------------------------------
\* the longest course id and topic id of the identity checks
MaxCourseLen == 1
MaxTopicLen == 2
\* the longest question list of a state handed to save
MaxQ == 2
\* the longest stored history the latest-attempt view is computed from
MaxStored == 3
\* the number of results appended to the history one after the other
MaxAppends == 55
\* the clock value from which no further quiz is started
MaxClock == 2
\* the number of calls made on a quiz that is still loading
MaxLoadingCalls == 2

\* ------------------------------------------------------------------------
\* Strings as sequences of characters
\* ------------------------------------------------------------------------
\* a-z, A-Z, 0-9: the ranges of the character class of getQuizStateKey
LowerCase ==
    {"a", "b", "c", "d", "e", "f", "g", "h", "i", "j", "k", "l", "m"} \cup
    {"n", "o", "p", "q", "r", "s", "t", "u", "v", "w", "x", "y", "z"}
UpperCase ==
    {"A", "B", "C", "D", "E", "F", "G", "H", "I", "J", "K", "L", "M"} \cup
    {"N", "O", "P", "Q", "R", "S", "T", "U", "V", "W", "X", "Y", "Z"}
Digits == {"0", "1", "2", "3", "4", "5", "6", "7", "8", "9"}

\* the characters the bounded strings of the model are made of: a letter, the
\* underscore, and a character outside the class
Chars == {"a", "_", "."}

RECURSIVE StringsUpTo(_, _)
StringsUpTo(alphabet, n) ==
    IF n = 0 THEN {<<>>}
    ELSE LET shorter == StringsUpTo(alphabet, n - 1)
         IN  shorter \cup {Append(s, c) : s \in shorter, c \in alphabet}

Range(s) == {s[i] : i \in 1..Len(s)}

\* the JavaScript value null where a string is expected (topicId: string | null):
\* a one-element sequence whose element is no character
NullStr == <<"<null>">>

StrFull == <<"f", "u", "l", "l">>

\* ------------------------------------------------------------------------
\* Quiz identity (getQuizStateKey)
\* ------------------------------------------------------------------------
QUIZ_STATE_PREFIX == <<"q", "u", "i", "z", "S", "t", "a", "t", "e", "_">>

\* the key value null (no identity)
NullKey == <<"<null>">>

\* the config value null (QuizConfig | null)
NullConfig == [t |-> "null"]

\* the JavaScript value undefined where a string is expected (a config object
\* without a courseId)
UndefStr == <<"<undefined>">>

\* !courseId: the empty string, null and undefined
FalsyStr(s) == s \in {<<>>, NullStr, UndefStr}

\* [^a-zA-Z0-9_-]: the characters the regular expression of line 13 replaces
IsUnsafeChar(c) == c \notin (LowerCase \cup UpperCase \cup Digits \cup {"_", "-"})

\* String.prototype.replace(/[^a-zA-Z0-9_-]/g, '_')
RECURSIVE SanitizeTopicPart(_)
SanitizeTopicPart(s) ==
    IF s = <<>> THEN <<>>
    ELSE <<IF IsUnsafeChar(Head(s)) THEN "_" ELSE Head(s)>> \o SanitizeTopicPart(Tail(s))

\* a mutant: the topic part is used as it is, without the replace of line 13
getQuizStateKeyUnsanitized(config) ==
    IF config = NullConfig \/ FalsyStr(config.courseId) THEN NullKey
    ELSE LET topicPart == IF config.topicId = NullStr THEN StrFull ELSE config.topicId
         IN  QUIZ_STATE_PREFIX \o config.courseId \o <<"_">> \o topicPart

getQuizStateKey(config) ==
    IF config = NullConfig \/ FalsyStr(config.courseId) THEN NullKey
    ELSE LET topicPart == IF config.topicId = NullStr THEN StrFull ELSE config.topicId
             safeTopicPart == SanitizeTopicPart(topicPart)
         IN  QUIZ_STATE_PREFIX \o config.courseId \o <<"_">> \o safeTopicPart

\* QuizConfig: {courseId, topicId, type}
QuizConfig(courseId, topicId, type) ==
    [courseId |-> courseId, topicId |-> topicId, type |-> type]

\* ------------------------------------------------------------------------
\* JavaScript values
\* ------------------------------------------------------------------------
JNull == [t |-> "null"]
JUndef == [t |-> "undef"]
JNum(n) == [t |-> "num", v |-> n]
JStr(s) == [t |-> "str", v |-> s]
JArr(s) == [t |-> "arr", v |-> s]
JSet(s) == [t |-> "set", v |-> s]
JObj == [t |-> "obj"]

\* Array.isArray(x), typeof x === 'number', typeof x === 'string', x instanceof Set
IsArray(x) == x.t = "arr"
IsNumber(x) == x.t = "num"
IsString(x) == x.t = "str"
IsSet(x) == x.t = "set"

\* the truthiness of a value in a condition (parsed && ..., checkedAnswers && ...,
\* !result); no string is tested this way in the model
Truthy(x) ==
    CASE x.t \in {"null", "undef"} -> FALSE
      [] x.t = "num" -> x.v # 0
      [] OTHER -> TRUE

\* new Set(array): the elements in order of first occurrence
RECURSIVE Dedup(_)
Dedup(s) ==
    IF s = <<>> THEN <<>>
    ELSE LET front == Dedup(SubSeq(s, 1, Len(s) - 1))
             last == s[Len(s)]
         IN  IF last \in Range(front) THEN front ELSE Append(front, last)

NewSet(arr) == JSet(Dedup(arr))

\* Array.from(set): the elements in insertion order
ArrayFrom(set) == JArr(set.v)

\* a SavedQuizState object (src/types/quiz.ts); a field that is absent is JUndef
SavedQuizState(currentIndex, answers, start, questionIds, courseId, topicId, checked) ==
    [t |-> "state", currentIndex |-> currentIndex, userAnswers |-> answers,
     startTime |-> start, questionIds |-> questionIds, courseId |-> courseId,
     topicId |-> topicId, checkedAnswers |-> checked]

\* property access x.f: undefined on a value that has no such property
Field(x, f) == IF x.t = "state" THEN x[f] ELSE JUndef

\* x.length of an array
Length(x) == Len(x.v)

\* ------------------------------------------------------------------------
\* JSON text in storage
\* ------------------------------------------------------------------------
\* a stored string that is no JSON text
Garbage == [t |-> "text"]

\* the empty string stored under a key: no JSON text, and falsy
EmptyText == [t |-> "empty"]

\* what JSON.stringify writes for an answer: a Set has no enumerable property
\* and is written as {}; undefined inside an array is written as null
AnswerToJSON(a) ==
    CASE a.t = "set" -> JObj
      [] a.t = "undef" -> JNull
      [] OTHER -> a

ValueToJSON(x) ==
    IF x.t = "state"
    THEN [x EXCEPT !.userAnswers =
             IF IsArray(x.userAnswers)
             THEN JArr([i \in 1..Length(x.userAnswers) |-> AnswerToJSON(x.userAnswers.v[i])])
             ELSE x.userAnswers]
    ELSE x

JSONStringify(x) == [t |-> "json", v |-> ValueToJSON(x)]

\* JSON.parse: [ok |-> FALSE] stands for the SyntaxError it throws
JSONParse(raw) ==
    IF raw.t = "json" THEN [ok |-> TRUE, v |-> raw.v] ELSE [ok |-> FALSE]

\* ------------------------------------------------------------------------
\* Catalog (src/data/quizData.ts over the bundled course data)
\* ------------------------------------------------------------------------
CourseDemo == <<"d">>
TopicT1 == <<"t", "1">>
\* a topic no question of the catalog has
TopicNone == <<"t", "9">>

\* QuizItem: {id, topic, correctAnswer, options}
QuizItem(id, topic, correctAnswer, options) ==
    [id |-> id, topic |-> topic, correctAnswer |-> correctAnswer, options |-> options]

\* loadCourses(): one course, a single-select question of topic t1 and a
\* multi-select question without a topic
Courses ==
    << [id |-> CourseDemo,
        topics |-> <<TopicT1>>,
        quizItems |-> << QuizItem("q1", TopicT1, <<"A">>, {"A", "B"}),
                         QuizItem("q2", NullStr, <<"A", "B">>, {"A", "B", "C"}) >>] >>

getCourses == Courses

\* no course, no question (undefined)
NoCourse == [id |-> NullStr]
NoQuestion == [id |-> "<undefined>"]

getCourseById(id) ==
    IF id = NullStr \/ id = <<>> THEN NoCourse
    ELSE IF \E i \in 1..Len(Courses) : Courses[i].id = id
         THEN Courses[CHOOSE i \in 1..Len(Courses) :
                          /\ Courses[i].id = id
                          /\ \A j \in 1..(i - 1) : Courses[j].id # id]
         ELSE NoCourse

getQuizItems(courseId, topicId) ==
    LET course == getCourseById(courseId)
    IN  IF course = NoCourse THEN <<>>
        ELSE IF topicId # NullStr /\ topicId # <<>>
             THEN LET OfTopic(item) == item.topic = topicId
                  IN  SelectSeq(course.quizItems, OfTopic)
             ELSE course.quizItems

getQuestionById(courseId, questionId) ==
    LET course == getCourseById(courseId)
    IN  IF course = NoCourse THEN NoQuestion
        ELSE IF \E i \in 1..Len(course.quizItems) : course.quizItems[i].id = questionId
             THEN course.quizItems[CHOOSE i \in 1..Len(course.quizItems) :
                          /\ course.quizItems[i].id = questionId
                          /\ \A j \in 1..(i - 1) : course.quizItems[j].id # questionId]
             ELSE NoQuestion

\* question?.correctAnswer ?? []  and  question.correctAnswer || []
CorrectAnswerOf(question) ==
    IF question = NoQuestion THEN <<>> ELSE question.correctAnswer

\* isMultiSelect (Quiz.tsx), isMultipleCorrect (Question.tsx), isMulti (loadQuizState)
isMultiSelect(correctAnswers) == Len(correctAnswers) > 1

\* ------------------------------------------------------------------------
\* localStorage: a function from the keys present to the strings stored
\* ------------------------------------------------------------------------
KeyQuizResults == <<"q", "u", "i", "z", "R", "e", "s", "u", "l", "t", "s">>
KeySelectedCourse ==
    <<"s", "e", "l", "e", "c", "t", "e", "d", "C", "o", "u", "r", "s", "e", "I", "d", "_", "v", "2">>

EmptyMap == [k \in {} |-> JNull]

HasItem(store, key) == key \in DOMAIN store
RemoveItem(store, key) == [k \in (DOMAIN store) \ {key} |-> store[k]]
SetItem(store, key, value) ==
    [k \in (DOMAIN store) \cup {key} |-> IF k = key THEN value ELSE store[k]]

\* key.startsWith(QUIZ_STATE_PREFIX)
StartsWithPrefix(key) ==
    /\ Len(key) >= Len(QUIZ_STATE_PREFIX)
    /\ SubSeq(key, 1, Len(QUIZ_STATE_PREFIX)) = QUIZ_STATE_PREFIX

\* ------------------------------------------------------------------------
\* Quiz State Manager (useQuizStateManagement)
\* ------------------------------------------------------------------------
\* the validation of loadAllStatesFromStorage (lines 35 and 53)
ValidForLoadAll(parsed) ==
    /\ Truthy(parsed)
    /\ IsNumber(Field(parsed, "currentIndex"))
    /\ IsArray(Field(parsed, "userAnswers"))

\* the keys loadAllStatesFromStorage enumerates: the full quiz and every
\* non-empty topic of every course
EnumeratedKeys ==
    UNION {
        {getQuizStateKey(QuizConfig(getCourses[c].id, NullStr, "full"))} \cup
        {getQuizStateKey(QuizConfig(getCourses[c].id, getCourses[c].topics[i], "topic")) :
            i \in {j \in 1..Len(getCourses[c].topics) : getCourses[c].topics[j] # <<>>}}
        : c \in 1..Len(getCourses)} \ {NullKey}

\* loadAllStatesFromStorage: the map of the valid entries, and storage without
\* the enumerated entries that do not parse or are not valid; an entry is
\* looked at only if (savedFull) / if (savedTopic), lines 32 and 51: the
\* empty string is passed over like a missing entry
loadAllStatesFromStorage(store) ==
    LET present == {k \in EnumeratedKeys : HasItem(store, k) /\ store[k] # EmptyText}
        good == {k \in present : JSONParse(store[k]).ok /\ ValidForLoadAll(JSONParse(store[k]).v)}
    IN  [states |-> [k \in good |-> JSONParse(store[k]).v],
         store |-> [k \in (DOMAIN store) \ (present \ good) |-> store[k]]]

\* a mutant: the index is replaced by the saved entry, the entries of the
\* other quizzes dropped (...prev of line 99 left out)
saveQuizStateIndexReplaced(store, index, config, state) ==
    LET key == getQuizStateKey(config)
    IN  IF key = NullKey THEN [store |-> store, index |-> index]
        ELSE IF state = JNull
             THEN [store |-> RemoveItem(store, key), index |-> RemoveItem(index, key)]
             ELSE LET answersForStorage ==
                          JArr([i \in 1..Length(state.userAnswers) |->
                                   IF IsSet(state.userAnswers.v[i])
                                   THEN ArrayFrom(state.userAnswers.v[i])
                                   ELSE state.userAnswers.v[i]])
                      stateToSave == [state EXCEPT !.userAnswers = answersForStorage,
                                                   !.courseId = config.courseId,
                                                   !.topicId = config.topicId]
                  IN  [store |-> SetItem(store, key, JSONStringify(stateToSave)),
                       index |-> SetItem(EmptyMap, key, state)]

\* a mutant: the answers are stored as the session holds them, the sets not
\* converted to arrays (line 90 left out)
saveQuizStateSetsKept(store, index, config, state) ==
    LET key == getQuizStateKey(config)
    IN  IF key = NullKey THEN [store |-> store, index |-> index]
        ELSE IF state = JNull
             THEN [store |-> RemoveItem(store, key), index |-> RemoveItem(index, key)]
             ELSE LET stateToSave == [state EXCEPT !.courseId = config.courseId,
                                                   !.topicId = config.topicId]
                  IN  [store |-> SetItem(store, key, JSONStringify(stateToSave)),
                       index |-> SetItem(index, key, state)]

\* saveQuizState(config, state); state = JNull clears
saveQuizState(store, index, config, state) ==
    LET key == getQuizStateKey(config)
    IN  IF key = NullKey THEN [store |-> store, index |-> index]
        ELSE IF state = JNull
             THEN [store |-> RemoveItem(store, key), index |-> RemoveItem(index, key)]
             ELSE LET answersForStorage ==
                          JArr([i \in 1..Length(state.userAnswers) |->
                                   IF IsSet(state.userAnswers.v[i])
                                   THEN ArrayFrom(state.userAnswers.v[i])
                                   ELSE state.userAnswers.v[i]])
                      stateToSave == [state EXCEPT !.userAnswers = answersForStorage,
                                                   !.courseId = config.courseId,
                                                   !.topicId = config.topicId]
                  IN  [store |-> SetItem(store, key, JSONStringify(stateToSave)),
                       index |-> SetItem(index, key, state)]

\* the validation of loadQuizState (line 119)
ValidForLoad(parsed) ==
    /\ Truthy(parsed)
    /\ IsNumber(Field(parsed, "currentIndex"))
    /\ IsArray(Field(parsed, "userAnswers"))
    /\ IsArray(Field(parsed, "questionIds"))
    /\ Length(Field(parsed, "questionIds")) = Length(Field(parsed, "userAnswers"))

\* a mutant: a stored array becomes a set whatever the question is (isMulti of
\* line 132 left out)
RestoreAnswerAnyArray(config, parsed, index) ==
    LET ans == parsed.userAnswers.v[index]
    IN  IF IsArray(ans) THEN NewSet(ans.v)
        ELSE IF IsString(ans) THEN ans ELSE JNull

\* lines 121-137: the stored answer at position index, as the session holds it
RestoreAnswer(config, parsed, index) ==
    LET ans == parsed.userAnswers.v[index]
        question == getQuestionById(config.courseId, parsed.questionIds.v[index])
        correctAnswers == CorrectAnswerOf(question)
        isMulti == isMultiSelect(correctAnswers)
    IN  IF isMulti /\ IsArray(ans) THEN NewSet(ans.v)
        ELSE IF IsString(ans) THEN ans ELSE JNull

\* a mutant: a stored value that fails the check is reported as absent and
\* left in storage (line 156 left out)
loadQuizStateKeepsCorrupt(store, config) ==
    LET key == getQuizStateKey(config)
    IN  IF key = NullKey THEN [result |-> JNull, store |-> store]
        ELSE IF ~HasItem(store, key) THEN [result |-> JNull, store |-> store]
        ELSE LET p == JSONParse(store[key])
             IN  IF p.ok /\ ValidForLoad(p.v)
                 THEN LET parsed == p.v
                          n == Length(parsed.questionIds)
                          userAnswersWithSets ==
                              JArr([i \in 1..Length(parsed.userAnswers) |->
                                       RestoreAnswer(config, parsed, i)])
                          checkedAnswersArray ==
                              IF Truthy(parsed.checkedAnswers) /\ IsArray(parsed.checkedAnswers)
                                 /\ Length(parsed.checkedAnswers) = n
                              THEN parsed.checkedAnswers
                              ELSE JArr([i \in 1..n |-> FALSE])
                      IN  [result |-> [parsed EXCEPT !.userAnswers = userAnswersWithSets,
                                                     !.checkedAnswers = checkedAnswersArray],
                           store |-> store]
                 ELSE [result |-> JNull, store |-> store]

\* loadQuizState(config): the state returned (JNull for null) and storage after it
loadQuizState(store, config) ==
    LET key == getQuizStateKey(config)
    IN  IF key = NullKey THEN [result |-> JNull, store |-> store]
        ELSE IF ~HasItem(store, key) THEN [result |-> JNull, store |-> store]
        ELSE LET p == JSONParse(store[key])
             IN  IF p.ok /\ ValidForLoad(p.v)
                 THEN LET parsed == p.v
                          n == Length(parsed.questionIds)
                          userAnswersWithSets ==
                              JArr([i \in 1..Length(parsed.userAnswers) |->
                                       RestoreAnswer(config, parsed, i)])
                          checkedAnswersArray ==
                              IF Truthy(parsed.checkedAnswers) /\ IsArray(parsed.checkedAnswers)
                                 /\ Length(parsed.checkedAnswers) = n
                              THEN parsed.checkedAnswers
                              ELSE JArr([i \in 1..n |-> FALSE])
                      IN  [result |-> [parsed EXCEPT !.userAnswers = userAnswersWithSets,
                                                     !.checkedAnswers = checkedAnswersArray],
                           store |-> store]
                 ELSE [result |-> JNull, store |-> RemoveItem(store, key)]

\* a mutant: only the keys of the catalog's quizzes are removed
clearAllQuizStatesOfCatalog(store) ==
    [store |-> [k \in {x \in DOMAIN store : x \notin EnumeratedKeys /\ x # KeyQuizResults} |-> store[k]],
     index |-> EmptyMap]

\* clearAllQuizStates: storage and the in-memory index after it
clearAllQuizStates(store) ==
    [store |-> [k \in {x \in DOMAIN store : ~StartsWithPrefix(x) /\ x # KeyQuizResults} |-> store[k]],
     index |-> EmptyMap]

\* ------------------------------------------------------------------------
\* Completed-attempt history (App.tsx)
\* ------------------------------------------------------------------------
\* the cap of the history: updatedResults.slice(-50)
HistoryCap == 50

RECURSIVE Gcd(_, _)
Gcd(a, b) == IF b = 0 THEN a ELSE Gcd(b, a % b)

\* a number that need not be an integer, as a fraction in lowest terms
Ratio(n, d) == LET g == Gcd(n, d) IN IF g = 0 THEN <<0, 1>> ELSE <<n \div g, d \div g>>

\* totalQuestions > 0 ? (score / totalQuestions) * 100 : 0
Percentage(score, totalQuestions) ==
    IF totalQuestions > 0 THEN JNum(Ratio(score * 100, totalQuestions)) ELSE JNum(Ratio(0, 1))

\* a QuizResults object (src/types/quiz.ts)
QuizResults(score, totalQuestions, answers, duration, questionIds, courseId, topicId, timestamp, percentage) ==
    [t |-> "result", score |-> score, totalQuestions |-> totalQuestions, answers |-> answers,
     duration |-> duration, questionIds |-> questionIds, courseId |-> courseId,
     topicId |-> topicId, timestamp |-> timestamp, percentage |-> percentage]

\* JSON.stringify of the history: the Set of an answer is written as {}
ResultToJSON(r) ==
    IF r.t = "result"
    THEN [r EXCEPT !.answers = [i \in 1..Len(r.answers) |->
                                   [r.answers[i] EXCEPT !.userAnswer = AnswerToJSON(@)]]]
    ELSE r

JSONStringifyHistory(history) ==
    [t |-> "json",
     v |-> IF IsArray(history)
           THEN JArr([i \in 1..Length(history) |-> ResultToJSON(history.v[i])])
           ELSE history]

\* (a.timestamp ?? 0): the number the comparator of the sort reads
SortKey(r) == IF IsNumber(r.timestamp) THEN r.timestamp.v ELSE 0

\* a mutant of the comparator: newest first
RECURSIVE SortByTimestampDescending(_)
SortByTimestampDescending(list) ==
    IF list = <<>> THEN <<>>
    ELSE LET sorted == SortByTimestampDescending(SubSeq(list, 1, Len(list) - 1))
             last == list[Len(list)]
             p == Cardinality({j \in 1..Len(sorted) : SortKey(sorted[j]) >= SortKey(last)})
         IN  SubSeq(sorted, 1, p) \o <<last>> \o SubSeq(sorted, p + 1, Len(sorted))

\* Array.prototype.sort((a, b) => (a.timestamp ?? 0) - (b.timestamp ?? 0)): the
\* elements in ascending order of the number compared, equal ones in their
\* order in the array (the sort is stable)
RECURSIVE SortByTimestamp(_)
SortByTimestamp(list) ==
    IF list = <<>> THEN <<>>
    ELSE LET sorted == SortByTimestamp(SubSeq(list, 1, Len(list) - 1))
             last == list[Len(list)]
             p == Cardinality({j \in 1..Len(sorted) : SortKey(sorted[j]) <= SortKey(last)})
         IN  SubSeq(sorted, 1, p) \o <<last>> \o SubSeq(sorted, p + 1, Len(sorted))

\* a mutant of the slice: the first 50 are kept
SliceFirst(list, count) ==
    SubSeq(list, 1, IF Len(list) > count THEN count ELSE Len(list))

\* Array.prototype.slice(-count)
SliceLast(list, count) ==
    SubSeq(list, IF Len(list) > count THEN Len(list) - count + 1 ELSE 1, Len(list))

\* a mutant: the entries of the same timestamp are kept (the filter of line 90
\* left out)
handleAddResultNotFiltered(prevHistory, newResult, dateNow) ==
    LET resultToAdd == [newResult EXCEPT !.timestamp =
                           IF IsNumber(newResult.timestamp) THEN newResult.timestamp
                           ELSE JNum(dateNow)]
        updatedResults == SortByTimestamp(Append(prevHistory.v, resultToAdd))
    IN  JArr(SliceLast(updatedResults, HistoryCap))

\* handleAddResult: the updater given to setResultsHistory, applied to prevHistory
handleAddResult(prevHistory, newResult, dateNow) ==
    LET resultToAdd == [newResult EXCEPT !.timestamp =
                           IF IsNumber(newResult.timestamp) THEN newResult.timestamp
                           ELSE JNum(dateNow)]
        Other(r) == r.timestamp # resultToAdd.timestamp
        otherResults == SelectSeq(prevHistory.v, Other)
        updatedResults == SortByTimestamp(Append(otherResults, resultToAdd))
    IN  JArr(SliceLast(updatedResults, HistoryCap))

\* a timestamp stored as a date string: ms is what new Date(s).getTime()
\* returns; a string that is no date has no ms and getTime() is NaN
DateStr(ms) == [t |-> "str", v |-> "date", ms |-> ms]
NotADate == [t |-> "str", v |-> "text"]

\* lines 39-46: the numeric timestamp of a result, JNull when there is none
ResultTimestampNumber(result) ==
    IF IsString(result.timestamp)
    THEN IF result.timestamp.v = "date" THEN JNum(result.timestamp.ms) ELSE JNull
    ELSE IF IsNumber(result.timestamp) THEN result.timestamp ELSE JNull

\* line 49: the result is skipped
SkippedAsInvalid(result) ==
    \/ ~Truthy(result)
    \/ ~IsString(result.courseId)
    \/ ResultTimestampNumber(result) = JNull
    \/ ~IsNumber(result.score)
    \/ ~IsNumber(result.totalQuestions)

\* lines 55-56: getQuizStateKey of the config built from the result; ok is
\* FALSE for the TypeError of topicPart.replace on a topicId that is neither
\* null nor a string
KeyOfResult(result) ==
    IF result.courseId.v = <<>> THEN [ok |-> TRUE, key |-> NullKey]
    ELSE IF result.topicId = JNull
         THEN [ok |-> TRUE,
               key |-> getQuizStateKey(QuizConfig(result.courseId.v, NullStr, "full"))]
         ELSE IF IsString(result.topicId)
              THEN [ok |-> TRUE,
                    key |-> getQuizStateKey(QuizConfig(result.courseId.v, result.topicId.v,
                                            IF result.topicId.v # <<>> THEN "topic" ELSE "full"))]
              ELSE [ok |-> FALSE]

\* a LastCompletedAttempt object (src/types/quiz.ts)
LastCompletedAttempt(score, totalQuestions, percentage, timestamp) ==
    [score |-> score, totalQuestions |-> totalQuestions, percentage |-> percentage,
     timestamp |-> timestamp]

\* lines 38-78: the body of the forEach applied to one result; acc is
\* [ok, map], ok FALSE once a TypeError was thrown
HistoryStep(acc, result) ==
    IF ~acc.ok THEN acc
    ELSE IF result.t \in {"null", "undef"} THEN [ok |-> FALSE]
    ELSE IF SkippedAsInvalid(result) THEN acc
    ELSE LET k == KeyOfResult(result)
         IN  IF ~k.ok THEN [ok |-> FALSE]
             ELSE IF k.key = NullKey THEN acc
             ELSE LET ts == ResultTimestampNumber(result).v
                      percentage ==
                          IF result.percentage.t \in {"null", "undef"}
                          THEN Percentage(result.score.v, result.totalQuestions.v)
                          ELSE result.percentage
                  IN  IF ~HasItem(acc.map, k.key) \/ ts > acc.map[k.key].timestamp
                      THEN [ok |-> TRUE,
                            map |-> SetItem(acc.map, k.key,
                                        LastCompletedAttempt(result.score.v,
                                            result.totalQuestions.v, percentage, ts))]
                      ELSE acc

\* a mutant: a result replaces the entry of its identity whatever its timestamp
HistoryStepLastWins(acc, result) ==
    IF ~acc.ok THEN acc
    ELSE IF result.t \in {"null", "undef"} THEN [ok |-> FALSE]
    ELSE IF SkippedAsInvalid(result) THEN acc
    ELSE LET k == KeyOfResult(result)
         IN  IF ~k.ok THEN [ok |-> FALSE]
             ELSE IF k.key = NullKey THEN acc
             ELSE LET ts == ResultTimestampNumber(result).v
                      percentage ==
                          IF result.percentage.t \in {"null", "undef"}
                          THEN Percentage(result.score.v, result.totalQuestions.v)
                          ELSE result.percentage
                  IN  [ok |-> TRUE,
                       map |-> SetItem(acc.map, k.key,
                                   LastCompletedAttempt(result.score.v,
                                       result.totalQuestions.v, percentage, ts))]

RECURSIVE HistoryFold(_, _)
HistoryFold(list, n) ==
    IF n = 0 THEN [ok |-> TRUE, map |-> EmptyMap]
    ELSE HistoryStep(HistoryFold(list, n - 1), list[n])

\* completedQuizHistory: the value of the useMemo for a history; ok is FALSE
\* when computing it throws
completedQuizHistory(history) ==
    IF ~Truthy(history) \/ ~IsArray(history) \/ Length(history) = 0
    THEN [ok |-> TRUE, map |-> EmptyMap]
    ELSE HistoryFold(history.v, Length(history))

\* ------------------------------------------------------------------------
\* Quiz session engine (Quiz.tsx, Question.tsx): the functions of the handlers
\* ------------------------------------------------------------------------
\* the states of Quiz at its mount (lines 26-33): the initial values of useState
NoEmission == [t |-> "none"]

QuizUnmounted ==
    /\ quizConfig = NullConfig
    /\ quizHookIndex = EmptyMap
    /\ currentQuestions = <<>>
    /\ currentQuestionIndex = 0
    /\ userAnswers = <<>>
    /\ startTime = JNull
    /\ showFeedbackForSingleChoice = FALSE
    /\ answerStatuses = <<>>
    /\ checkedAnswers = <<>>
    /\ isLoaded = FALSE

\* no quiz was ever started
NoQuizYet ==
    /\ route = "home"
    /\ QuizUnmounted
    /\ emitted = NoEmission
    /\ finished = {}

\* a mutant: every string is found
IncludesAnyString(correctAnswers, x) == IsString(x)

\* array.includes(x) over an array of option keys: a value that is no string
\* is equal to none of them
Includes(correctAnswers, x) == IsString(x) /\ x.v \in Range(correctAnswers)

\* userAnswers[index] (index 0-based): undefined beyond the end of the array
AnswerAt(answers, index) ==
    IF index + 1 \in 1..Len(answers) THEN answers[index + 1] ELSE JUndef

\* array[index] of booleans or statuses, with the default of || behind it
FlagAt(flags, index) ==
    IF index + 1 \in 1..Len(flags) THEN flags[index + 1] ELSE FALSE
StatusAt(statuses, index) ==
    IF index + 1 \in 1..Len(statuses) THEN statuses[index + 1] ELSE "null"

\* newArray[index] = value on a copy of the array (index within the array)
SetAt(array, index, value) == [array EXCEPT ![index + 1] = value]

\* set.add(value), set.delete(value), set.has(value) on a Set in insertion order
SetAdd(set, value) == IF value \in Range(set.v) THEN set ELSE JSet(Append(set.v, value))
SetDelete(set, value) ==
    LET Other(x) == x # value
    IN  JSet(SelectSeq(set.v, Other))
SetHas(set, value) == value \in Range(set.v)

\* a mutant: the sizes are not compared, every correct key selected is enough
IsCorrectMultiNoSize(correctAnswers, userAnswer) ==
    /\ IsSet(userAnswer)
    /\ \A i \in 1..Len(correctAnswers) : SetHas(userAnswer, correctAnswers[i])

\* lines 199-200 and 260-261: the exact match of a multi-select answer
IsCorrectMulti(correctAnswers, userAnswer) ==
    /\ IsSet(userAnswer)
    /\ Len(correctAnswers) = Len(userAnswer.v)
    /\ \A i \in 1..Len(correctAnswers) : SetHas(userAnswer, correctAnswers[i])

\* a mutant: every answer given is taken as correct
IsCorrectSingleAnyAnswer(correctAnswers, userAnswer) ==
    IF userAnswer.t \in {"null", "undef"} THEN "" \in Range(correctAnswers)
    ELSE TRUE

\* line 265: correctAnswers.includes(userAnswerForQuestion ?? '')
IsCorrectSingle(correctAnswers, userAnswer) ==
    IF userAnswer.t \in {"null", "undef"} THEN "" \in Range(correctAnswers)
    ELSE Includes(correctAnswers, userAnswer)

\* lines 252-267: isCorrectFlag of one question
IsCorrectFinal(q, userAnswer) ==
    IF isMultiSelect(q.correctAnswer)
    THEN IsCorrectMulti(q.correctAnswer, userAnswer)
    ELSE IsCorrectSingle(q.correctAnswer, userAnswer)

\* an AnswerResult object (src/types/quiz.ts)
AnswerResult(questionId, userAnswer, correctAnswer, isCorrect, options) ==
    [questionId |-> questionId, userAnswer |-> userAnswer, correctAnswer |-> correctAnswer,
     isCorrect |-> isCorrect, options |-> options]

\* lines 251-276: answerDetails
AnswerDetails(questions, answers) ==
    [i \in 1..Len(questions) |->
        AnswerResult(questions[i].id, AnswerAt(answers, i - 1), questions[i].correctAnswer,
                     IsCorrectFinal(questions[i], AnswerAt(answers, i - 1)),
                     questions[i].options)]

\* a mutant: score incremented for every question that has an answer
RECURSIVE ScoreOfAnswered(_, _, _)
ScoreOfAnswered(questions, answers, n) ==
    IF n = 0 THEN 0
    ELSE ScoreOfAnswered(questions, answers, n - 1) +
         (IF AnswerAt(answers, n - 1).t \in {"null", "undef"} THEN 0 ELSE 1)

\* lines 250 and 267: score, incremented for every question found correct
RECURSIVE ScoreOf(_, _, _)
ScoreOf(questions, answers, n) ==
    IF n = 0 THEN 0
    ELSE ScoreOf(questions, answers, n - 1) +
         (IF IsCorrectFinal(questions[n], AnswerAt(answers, n - 1)) THEN 1 ELSE 0)

\* Math.round(x / 1000) for x >= 0
RoundSeconds(ms) == (ms + 500) \div 1000

\* lines 283-293: the object onComplete is called with
FinalResults(config, questions, answers, start, endTime, timestamp) ==
    QuizResults(JNum(ScoreOf(questions, answers, Len(questions))),
                JNum(Len(questions)),
                AnswerDetails(questions, answers),
                JNum(RoundSeconds(endTime - start.v)),
                [i \in 1..Len(questions) |-> questions[i].id],
                JStr(config.courseId),
                IF config.topicId = NullStr THEN JNull ELSE JStr(config.topicId),
                JNum(timestamp),
                Percentage(ScoreOf(questions, answers, Len(questions)), Len(questions)))

\* a mutant: the saved state is left in place
ClearOnFinishSkipped(store, index, config) == [store |-> store, index |-> index]

\* lines 278-281: the saved state is cleared before onComplete is called
ClearOnFinish(store, index, config) ==
    IF getQuizStateKey(config) # NullKey THEN saveQuizState(store, index, config, JNull)
    ELSE [store |-> store, index |-> index]

\* lines 55-57: the questions of the saved ids the catalog resolves
LoadedQuestions(courseId, questionIds) ==
    LET Resolved(q) == q # NoQuestion
    IN  SelectSeq([i \in 1..Len(questionIds) |-> getQuestionById(courseId, questionIds[i])],
                  Resolved)

\* lines 67-75: answersWithSets
AnswersWithSets(savedState, loadedQuestions) ==
    [i \in 1..Length(savedState.userAnswers) |->
        IF i > Len(loadedQuestions) THEN JNull
        ELSE IF isMultiSelect(loadedQuestions[i].correctAnswer)
                /\ IsArray(savedState.userAnswers.v[i])
             THEN NewSet(savedState.userAnswers.v[i].v)
             ELSE savedState.userAnswers.v[i]]

\* lines 78-80: loadedCheckedAnswers
LoadedCheckedAnswers(savedState, loadedQuestions) ==
    IF Truthy(savedState.checkedAnswers)
       /\ Length(savedState.checkedAnswers) = Len(loadedQuestions)
    THEN savedState.checkedAnswers.v
    ELSE [i \in 1..Len(loadedQuestions) |-> FALSE]

\* lines 83-89: loadedStatuses
LoadedStatuses(answersWithSets, loadedQuestions) ==
    [i \in 1..Len(answersWithSets) |->
        IF i > Len(loadedQuestions) THEN "null"
        ELSE IF isMultiSelect(loadedQuestions[i].correctAnswer) \/ answersWithSets[i] = JNull
             THEN "null"
             ELSE IF Includes(loadedQuestions[i].correctAnswer, answersWithSets[i])
                  THEN "correct" ELSE "incorrect"]

\* lines 93 and 99: the saved index, 0 when it is not below the number of questions
LoadedIndex(savedState, loadedQuestions) ==
    IF savedState.currentIndex.v < Len(loadedQuestions) THEN savedState.currentIndex.v ELSE 0

\* lines 91-105: the state set from the values computed. At a negative index
\* loadedStatuses[loadedIndex] is undefined, which is not null, and
\* loadedQuestions[loadedIndex]?.correctAnswer || [] is the empty list
ResumeState(savedState, loadedQuestions, answersWithSets, loadedStatuses, loadedIndex, dateNow) ==
    [currentQuestions |-> loadedQuestions,
     currentQuestionIndex |-> loadedIndex,
     userAnswers |-> answersWithSets,
     startTime |-> IF savedState.startTime.t \in {"null", "undef"}
                   THEN JNum(dateNow) ELSE savedState.startTime,
     checkedAnswers |-> LoadedCheckedAnswers(savedState, loadedQuestions),
     answerStatuses |-> loadedStatuses,
     showFeedbackForSingleChoice |->
         /\ loadedIndex < Len(loadedStatuses)
         /\ (loadedIndex >= 0 => loadedStatuses[loadedIndex + 1] # "null")
         /\ loadedIndex < Len(loadedQuestions)
         /\ (loadedIndex >= 0 => ~isMultiSelect(loadedQuestions[loadedIndex + 1].correctAnswer))]

ResumeWith(savedState, loadedQuestions, answersWithSets, dateNow) ==
    ResumeState(savedState, loadedQuestions, answersWithSets,
                LoadedStatuses(answersWithSets, loadedQuestions),
                LoadedIndex(savedState, loadedQuestions), dateNow)

ResumeQuestions(savedState, loadedQuestions, dateNow) ==
    ResumeWith(savedState, loadedQuestions, AnswersWithSets(savedState, loadedQuestions),
               dateNow)

\* lines 51-105: the state the load effect sets from a saved state
Resume(config, savedState, dateNow) ==
    ResumeQuestions(savedState, LoadedQuestions(config.courseId, savedState.questionIds.v),
                    dateNow)

\* a mutant: the sort may put one question at two places and lose another
ShuffledOrdersWithRepeats(questions) ==
    {[i \in 1..Len(questions) |-> questions[p[i]]] :
        p \in [1..Len(questions) -> 1..Len(questions)]}

\* the orders [...questions].sort(() => 0.5 - Math.random()) can leave the
\* questions in: the comparator is not consistent, any order can come out
ShuffledOrders(questions) ==
    {[i \in 1..Len(questions) |-> questions[p[i]]] :
        p \in {f \in [1..Len(questions) -> 1..Len(questions)] :
                  \A i, j \in 1..Len(questions) : i # j => f[i] # f[j]}}

\* lines 108-123: the state the load effect sets for a new quiz
Initialize(questionsToUse, dateNow) ==
    [currentQuestions |-> questionsToUse,
     currentQuestionIndex |-> 0,
     userAnswers |-> [i \in 1..Len(questionsToUse) |-> JNull],
     startTime |-> JNum(dateNow),
     checkedAnswers |-> [i \in 1..Len(questionsToUse) |-> FALSE],
     answerStatuses |-> [i \in 1..Len(questionsToUse) |-> "null"],
     showFeedbackForSingleChoice |-> FALSE]

\* a mutant: the guard of line 133 tests the key only
SaveEffectNotGuarded(store, index, config, loaded, questionIndex, answers, start, questions, checked) ==
    IF getQuizStateKey(config) = NullKey
    THEN [store |-> store, index |-> index]
    ELSE LET answersForStorage ==
                 [i \in 1..Len(answers) |->
                     IF IsSet(answers[i]) THEN ArrayFrom(answers[i]) ELSE answers[i]]
             stateToSave ==
                 SavedQuizState(JNum(questionIndex), JArr(answersForStorage), start,
                                JArr([i \in 1..Len(questions) |-> questions[i].id]),
                                config.courseId, config.topicId, JArr(checked))
         IN  saveQuizState(store, index, config, stateToSave)

\* a mutant: the checked flags are saved as they were initialized, all false
SaveEffectChecksNotSaved(store, index, config, loaded, questionIndex, answers, start, questions, checked) ==
    IF ~loaded \/ getQuizStateKey(config) = NullKey \/ start = JNull \/ Len(questions) = 0
    THEN [store |-> store, index |-> index]
    ELSE LET answersForStorage ==
                 [i \in 1..Len(answers) |->
                     IF IsSet(answers[i]) THEN ArrayFrom(answers[i]) ELSE answers[i]]
             stateToSave ==
                 SavedQuizState(JNum(questionIndex), JArr(answersForStorage), start,
                                JArr([i \in 1..Len(questions) |-> questions[i].id]),
                                config.courseId, config.topicId,
                                JArr([i \in 1..Len(checked) |-> FALSE]))
         IN  saveQuizState(store, index, config, stateToSave)

\* lines 131-153: the save effect, for the state of a render
SaveEffect(store, index, config, loaded, questionIndex, answers, start, questions, checked) ==
    IF ~loaded \/ getQuizStateKey(config) = NullKey \/ start = JNull \/ Len(questions) = 0
    THEN [store |-> store, index |-> index]
    ELSE LET answersForStorage ==
                 [i \in 1..Len(answers) |->
                     IF IsSet(answers[i]) THEN ArrayFrom(answers[i]) ELSE answers[i]]
             stateToSave ==
                 SavedQuizState(JNum(questionIndex), JArr(answersForStorage), start,
                                JArr([i \in 1..Len(questions) |-> questions[i].id]),
                                config.courseId, config.topicId, JArr(checked))
         IN  saveQuizState(store, index, config, stateToSave)

\* ------------------------------------------------------------------------
\* Identity resolution called directly: SpecKey, SpecKeyPair
\* ------------------------------------------------------------------------
CourseIds == StringsUpTo(Chars, MaxCourseLen)
TopicIds == StringsUpTo(Chars, MaxTopicLen) \cup {StrFull, NullStr}
Configs == {QuizConfig(c, t, ty) : c \in CourseIds, t \in TopicIds, ty \in {"full", "topic"}}

InitCalls ==
    /\ storage = EmptyMap
    /\ inProgressQuizzes = EmptyMap
    /\ resultsHistory = JArr(<<>>)
    /\ now = 1
    /\ calls = <<>>
    /\ NoQuizYet

\* getQuizStateKey(config)
ResolveKey(config) ==
    /\ calls' = <<[op |-> "resolve", config |-> config, result |-> getQuizStateKey(config)]>>
    /\ UNCHANGED <<storeVars, histVars, quizVars>>

\* the same config resolved again with another type field
ResolveAgain(type) ==
    /\ LET config == [calls[1].config EXCEPT !.type = type]
       IN  calls' = Append(calls, [op |-> "resolve", config |-> config,
                                   result |-> getQuizStateKey(config)])
    /\ UNCHANGED <<storeVars, histVars, quizVars>>

NoCallYet == calls = <<>>
OneResolve == Len(calls) = 1 /\ calls[1].op = "resolve"

NextKey ==
    \/ NoCallYet /\ \E config \in Configs : ResolveKey(config)
    \/ OneResolve /\ \E type \in {"full", "topic"} : ResolveAgain(type)

SpecKey == InitCalls /\ [][NextKey]_vars

\* a second, arbitrary config resolved after the first
ResolveOther(config) ==
    /\ calls' = Append(calls, [op |-> "resolve", config |-> config,
                               result |-> getQuizStateKey(config)])
    /\ UNCHANGED <<storeVars, histVars, quizVars>>

NextKeyPair ==
    \/ NoCallYet /\ \E config \in Configs : ResolveKey(config)
    \/ OneResolve /\ \E config \in Configs : ResolveOther(config)

SpecKeyPair == InitCalls /\ [][NextKeyPair]_vars

\* the identity the data model prescribes: the prefix, the course id, '_', and
\* the topic id (or the token 'full') with every character outside
\* [A-Za-z0-9_-] replaced by '_'
InClass(c) == c \in LowerCase \cup UpperCase \cup Digits \cup {"_", "-"}
PrescribedKey(courseId, topicId) ==
    LET part == IF topicId = NullStr THEN <<"f", "u", "l", "l">> ELSE topicId
    IN  <<"q", "u", "i", "z", "S", "t", "a", "t", "e", "_">> \o courseId \o <<"_">> \o
        [i \in 1..Len(part) |-> IF InClass(part[i]) THEN part[i] ELSE "_"]

\* C4: every resolve of a config with a non-empty courseId returns the
\* prescribed identity, a function of (courseId, topicId) alone: resolving the
\* same pair again, whatever the type field, returns the same identity.
IdentityDeterminism ==
    /\ \A i \in 1..Len(calls) :
          (calls[i].op = "resolve" /\ calls[i].config.courseId # <<>>) =>
              calls[i].result = PrescribedKey(calls[i].config.courseId, calls[i].config.topicId)
    /\ \A i, j \in 1..Len(calls) :
          (/\ calls[i].op = "resolve" /\ calls[j].op = "resolve"
           /\ calls[i].config.courseId = calls[j].config.courseId
           /\ calls[i].config.topicId = calls[j].config.topicId) =>
              calls[i].result = calls[j].result

\* a config with a topic that holds a character outside the class was resolved
\* twice, under both type fields
IdentityDeterminismWitness ==
    /\ Len(calls) = 2
    /\ calls[1].config.courseId = <<"a">>
    /\ calls[1].config.topicId = <<"a", ".">>
    /\ calls[1].config.type # calls[2].config.type
    /\ calls[2].result = <<"q", "u", "i", "z", "S", "t", "a", "t", "e", "_", "a", "_", "a", "_">>

\* C5: any two configs with distinct (courseId, topicId) pairs and an
\* identity resolve to distinct identities.
IdentityInjectivity ==
    \A i, j \in 1..Len(calls) :
        (/\ calls[i].op = "resolve" /\ calls[j].op = "resolve"
         /\ calls[i].result # NullKey /\ calls[j].result # NullKey
         /\ <<calls[i].config.courseId, calls[i].config.topicId>> #
            <<calls[j].config.courseId, calls[j].config.topicId>>) =>
            calls[i].result # calls[j].result

\* ------------------------------------------------------------------------
\* save and load called directly: SpecStore
\* ------------------------------------------------------------------------
RECURSIVE SeqsOfLen(_, _)
SeqsOfLen(S, n) ==
    IF n = 0 THEN {<<>>}
    ELSE {Append(s, x) : s \in SeqsOfLen(S, n - 1), x \in S}

\* question ids: the catalog's single-select and multi-select question, and an
\* id the catalog does not resolve
StoreQuestionIds == {"q1", "q2", "q9"}

\* answers as a session holds them, and an array as an earlier save wrote it
StoreAnswers ==
    {JNull, JStr("A"), JSet(<<>>), JSet(<<"B", "A">>), JArr(<<"A", "A">>)}

StoreConfigs ==
    {QuizConfig(CourseDemo, NullStr, "full"), QuizConfig(CourseDemo, TopicT1, "topic")}

\* the states handed to save with n question ids: n answers or one fewer, and
\* n checked flags (none set, or every other one set) or no checkedAnswers
StoreStates(n) ==
    {SavedQuizState(JNum(idx), JArr(ans), start, JArr(ids), CourseDemo, NullStr, chk) :
        idx \in {0, n}, start \in {JNull, JNum(1)},
        ids \in SeqsOfLen(StoreQuestionIds, n),
        ans \in SeqsOfLen(StoreAnswers, n) \cup
                (IF n > 0 THEN SeqsOfLen(StoreAnswers, n - 1) ELSE {}),
        chk \in {JArr([i \in 1..n |-> FALSE]), JArr([i \in 1..n |-> i % 2 = 1]), JUndef}}

\* a well-formed stored state, and the ways a stored value can be broken
BaseStored ==
    SavedQuizState(JNum(0), JArr(<<JArr(<<"A", "B">>)>>), JNum(1), JArr(<<"q2">>),
                   CourseDemo, NullStr, JArr(<<TRUE>>))

StoredValues ==
    {Garbage} \cup
    {[t |-> "json", v |-> x] : x \in
        {JNull, JNum(5), JArr(<<>>), JObj,
         BaseStored,
         [BaseStored EXCEPT !.checkedAnswers = JUndef],
         [BaseStored EXCEPT !.checkedAnswers = JArr(<<>>)],
         [BaseStored EXCEPT !.userAnswers = JArr(<<JStr("A")>>)],
         [BaseStored EXCEPT !.userAnswers = JArr(<<JObj>>)],
         [BaseStored EXCEPT !.questionIds = JArr(<<"q1">>)],
         [BaseStored EXCEPT !.currentIndex = JNull],
         [BaseStored EXCEPT !.currentIndex = JNull],
         [BaseStored EXCEPT !.currentIndex = JUndef],
         [BaseStored EXCEPT !.userAnswers = JUndef],
         [BaseStored EXCEPT !.userAnswers = JStr("A")],
         [BaseStored EXCEPT !.userAnswers = JObj],
         [BaseStored EXCEPT !.questionIds = JUndef],
         [BaseStored EXCEPT !.questionIds = JNull],
         [BaseStored EXCEPT !.userAnswers = JArr(<<>>)],
         [BaseStored EXCEPT !.questionIds = JArr(<<"q2", "q1">>)]}}

\* saveQuizState(config, state)
StoreSave(config, state) ==
    /\ LET r == saveQuizState(storage, inProgressQuizzes, config, state)
       IN  /\ storage' = r.store
           /\ inProgressQuizzes' = r.index
    /\ calls' = <<[op |-> "save", config |-> config, state |-> state]>>
    /\ UNCHANGED <<histVars, quizVars>>

\* localStorage.setItem(key, text) from outside the manager
StoreWrite(config, raw) ==
    /\ storage' = SetItem(storage, getQuizStateKey(config), raw)
    /\ calls' = <<[op |-> "write", config |-> config, raw |-> raw]>>
    /\ UNCHANGED <<inProgressQuizzes, histVars, quizVars>>

\* loadQuizState(config), for the config of the call before
StoreLoad ==
    /\ Len(calls) = 1
    /\ calls[1].op \in {"save", "write"}
    /\ LET r == loadQuizState(storage, calls[1].config)
       IN  /\ storage' = r.store
           /\ calls' = Append(calls, [op |-> "load", config |-> calls[1].config,
                                      result |-> r.result])
    /\ UNCHANGED <<inProgressQuizzes, histVars, quizVars>>

NextStore ==
    \/ NoCallYet /\ \E config \in StoreConfigs, n \in 0..MaxQ :
                        \E state \in StoreStates(n) : StoreSave(config, state)
    \/ NoCallYet /\ \E config \in StoreConfigs, raw \in StoredValues : StoreWrite(config, raw)
    \/ StoreLoad

SpecStore == InitCalls /\ [][NextStore]_vars

\* a save of a state with as many answers and checked flags as question ids,
\* followed by a load
RoundTripDone ==
    /\ Len(calls) = 2
    /\ calls[1].op = "save"
    /\ calls[2].op = "load"
    /\ Length(calls[1].state.userAnswers) = Length(calls[1].state.questionIds)
    /\ IsArray(calls[1].state.checkedAnswers)
    /\ Length(calls[1].state.checkedAnswers) = Length(calls[1].state.questionIds)

\* the catalog's question for an id is multi-select
IsCatalogMulti(courseId, questionId) ==
    \E c \in 1..Len(Courses) :
        /\ Courses[c].id = courseId
        /\ \E q \in 1..Len(Courses[c].quizItems) :
              /\ Courses[c].quizItems[q].id = questionId
              /\ Len(Courses[c].quizItems[q].correctAnswer) > 1

\* C2: save(config, S) then load(config), for S with userAnswers, questionIds
\* and checkedAnswers of one length, returns a state with the currentIndex,
\* startTime, questionIds and checkedAnswers of S in which a set answer on a
\* multi-select question is a set of the same elements, a string answer the
\* same string, and null is null.
RoundTrip ==
    RoundTripDone =>
        LET S == calls[1].state
            L == calls[2].result
        IN  /\ L # JNull
            /\ L.currentIndex = S.currentIndex
            /\ L.startTime = S.startTime
            /\ L.questionIds = S.questionIds
            /\ L.checkedAnswers = S.checkedAnswers
            /\ IsArray(L.userAnswers)
            /\ Length(L.userAnswers) = Length(S.userAnswers)
            /\ \A i \in 1..Length(S.userAnswers) :
                  LET a == S.userAnswers.v[i]
                      b == L.userAnswers.v[i]
                  IN  /\ (IsSet(a) /\ IsCatalogMulti(calls[1].config.courseId, S.questionIds.v[i]))
                            => (IsSet(b) /\ Range(b.v) = Range(a.v)
                                /\ Len(b.v) = Cardinality(Range(a.v)))
                      /\ IsString(a) => b = a
                      /\ a = JNull => b = JNull

\* a state with a two-element set on the multi-select question and a string on
\* the single-select question went through save and load
RoundTripWitness ==
    /\ RoundTripDone
    /\ calls[1].state.questionIds.v = <<"q2", "q1">>
    /\ calls[1].state.userAnswers.v = <<JSet(<<"B", "A">>), JStr("A")>>
    /\ calls[1].state.checkedAnswers.v = <<TRUE, FALSE>>
    /\ calls[2].result # JNull
    /\ calls[2].result.userAnswers.v[1] = JSet(<<"B", "A">>)

\* the stored text is no JSON, or JSON that fails the structural validation
StoredIsCorrupt(raw) ==
    \/ raw.t # "json"
    \/ raw.v.t # "state"
    \/ raw.v.currentIndex.t # "num"
    \/ raw.v.userAnswers.t # "arr"
    \/ raw.v.questionIds.t # "arr"
    \/ Len(raw.v.userAnswers.v) # Len(raw.v.questionIds.v)

\* C3: load(config) of a value that is no JSON or fails the structural
\* validation returns null, and the key is no longer in storage afterwards.
CorruptionSelfHeal ==
    (/\ Len(calls) = 2
     /\ calls[1].op = "write"
     /\ calls[2].op = "load"
     /\ StoredIsCorrupt(calls[1].raw)) =>
        /\ calls[2].result = JNull
        /\ ~HasItem(storage, getQuizStateKey(calls[2].config))

\* a stored state whose userAnswers and questionIds differ in length was loaded
CorruptionSelfHealWitness ==
    /\ Len(calls) = 2
    /\ calls[1].op = "write"
    /\ calls[2].op = "load"
    /\ calls[1].raw.t = "json"
    /\ calls[1].raw.v.t = "state"
    /\ IsArray(calls[1].raw.v.userAnswers) /\ IsArray(calls[1].raw.v.questionIds)
    /\ Length(calls[1].raw.v.userAnswers) = 1
    /\ Length(calls[1].raw.v.questionIds) = 2
    /\ calls[2].result = JNull

\* ------------------------------------------------------------------------
\* Results appended to the history one after the other: SpecHistory
\* ------------------------------------------------------------------------
\* the result of the quiz finished at time ts (its fields are fixed by ts, so
\* that a result submitted again is the same result)
ResultAt(ts) ==
    QuizResults(JNum(ts % 2), JNum(1), <<>>, JNum(0), <<>>, JStr(CourseDemo),
                IF ts % 3 = 0 THEN JNull ELSE JStr(TopicT1), JNum(ts),
                Percentage(ts % 2, 1))

\* the effect of useLocalStorage: the value is written back under its key
WriteHistory(store, history) == SetItem(store, KeyQuizResults, JSONStringifyHistory(history))

\* ResultsPage mounts with the result of a quiz finished just now
AddNewResult ==
    /\ now <= MaxAppends
    /\ resultsHistory' = handleAddResult(resultsHistory, ResultAt(now), now)
    /\ storage' = WriteHistory(storage, resultsHistory')
    /\ now' = now + 1
    /\ calls' = <<[op |-> "append", timestamp |-> now]>>
    /\ UNCHANGED <<inProgressQuizzes, quizVars>>

\* the results submitted again (the results page shown again): the first two
\* results ever, the two newest, and those around the oldest one kept
Resubmitted ==
    {1, 2, now - 1, now - 2, now - HistoryCap + 1, now - HistoryCap, now - HistoryCap - 1}
        \cap (1..(now - 1))

AddOldResult(ts) ==
    /\ resultsHistory' = handleAddResult(resultsHistory, ResultAt(ts), now)
    /\ storage' = WriteHistory(storage, resultsHistory')
    /\ calls' = <<[op |-> "append", timestamp |-> ts]>>
    /\ UNCHANGED <<inProgressQuizzes, now, quizVars>>

NextHistory ==
    \/ AddNewResult
    \/ \E ts \in Resubmitted : AddOldResult(ts)

SpecHistory == InitCalls /\ [][NextHistory]_vars

\* the timestamps appended so far: AddNewResult appends now and advances it
AppendedTimestamps == 1..(now - 1)

\* the history as storage holds it
StoredHistory ==
    IF HasItem(storage, KeyQuizResults) /\ storage[KeyQuizResults].t = "json"
    THEN storage[KeyQuizResults].v
    ELSE JArr(<<>>)

\* C9: after any sequence of appends the stored history holds at most 50
\* entries, in ascending order of timestamp, and they are the entries with the
\* largest timestamps among all appended so far.
HistoryCapAndOrder ==
    calls # <<>> =>
        LET h == StoredHistory.v
        IN  /\ StoredHistory = resultsHistory
            /\ Len(h) <= 50
            /\ \A i, j \in 1..Len(h) : i < j => h[i].timestamp.v <= h[j].timestamp.v
            /\ {h[i].timestamp.v : i \in 1..Len(h)} =
                   {ts \in AppendedTimestamps :
                       Cardinality({u \in AppendedTimestamps : u > ts}) < 50}
            /\ \A i \in 1..Len(h) : h[i] = ResultAt(h[i].timestamp.v)

\* 55 results were appended: 50 are stored, those of the timestamps 6 to 55
HistoryCapAndOrderWitness ==
    /\ now = 56
    /\ Len(StoredHistory.v) = 50
    /\ StoredHistory.v[1].timestamp = JNum(6)
    /\ StoredHistory.v[50].timestamp = JNum(55)

\* ------------------------------------------------------------------------
\* The latest-attempt view computed from a stored history: SpecLatest
\* ------------------------------------------------------------------------
\* a stored result of the demo course
StoredResult(topicId, score, timestamp, percentage) ==
    QuizResults(score, JNum(1), <<>>, JNum(0), <<>>, JStr(CourseDemo), topicId, timestamp,
                percentage)

\* the entries of a stored history: results of the full quiz and of a topic
\* at several times, with and without a stored percentage, with a date-string
\* timestamp; and malformed entries
StoredEntries ==
    {StoredResult(JNull, JNum(1), JNum(1), Percentage(1, 1)),
     StoredResult(JNull, JNum(0), JNum(2), Percentage(0, 1)),
     StoredResult(JNull, JNum(1), JNum(3), JUndef),
     StoredResult(JNull, JNum(0), DateStr(4), JNum(Ratio(25, 1))),
     StoredResult(JStr(TopicT1), JNum(1), JNum(2), Percentage(1, 1)),
     StoredResult(JStr(TopicT1), JNum(0), JNum(3), JNull),
     StoredResult(JNull, JNum(1), NotADate, Percentage(1, 1)),
     StoredResult(JNull, JStr("1"), JNum(5), Percentage(1, 1)),
     [StoredResult(JNull, JNum(1), JNum(5), Percentage(1, 1)) EXCEPT !.courseId = JUndef],
     [StoredResult(JNull, JNum(1), JNum(5), Percentage(1, 1)) EXCEPT !.totalQuestions = JNull],
     StoredResult(JUndef, JNum(1), JNum(5), Percentage(1, 1)),
     JNull}

\* the application starts on a stored history (getStorageValue at the mount of App)
InitLatest ==
    /\ \E n \in 0..MaxStored :
          \E list \in SeqsOfLen(StoredEntries, n) :
              /\ resultsHistory = JArr(list)
              /\ storage = SetItem(EmptyMap, KeyQuizResults, JSONStringifyHistory(JArr(list)))
    /\ inProgressQuizzes = EmptyMap
    /\ now = 1
    /\ calls = <<>>
    /\ NoQuizYet

\* the useMemo of completedQuizHistory runs
Recalculate ==
    /\ calls = <<>>
    /\ calls' = <<[op |-> "latest", result |-> completedQuizHistory(resultsHistory)]>>
    /\ UNCHANGED <<storeVars, histVars, quizVars>>

\* a result is appended and the view is computed again
AppendAndRecalculate ==
    /\ Len(calls) = 1
    /\ calls[1].op = "latest"
    /\ calls[1].result.ok
    /\ \A i \in 1..Length(resultsHistory) :
          /\ resultsHistory.v[i].t = "result"
          /\ IsNumber(resultsHistory.v[i].timestamp)
    /\ resultsHistory' = handleAddResult(resultsHistory,
                             StoredResult(JNull, JNum(0), JNum(6), Percentage(0, 1)), now)
    /\ storage' = WriteHistory(storage, resultsHistory')
    /\ calls' = Append(calls, [op |-> "latest", result |-> completedQuizHistory(resultsHistory')])
    /\ UNCHANGED <<inProgressQuizzes, now, quizVars>>

NextLatest ==
    \/ Recalculate
    \/ AppendAndRecalculate

SpecLatest == InitLatest /\ [][NextLatest]_vars

\* a stored result the view has to take into account: a string courseId, a
\* timestamp that is a number or a date, a numeric score and totalQuestions
IsValidResult(r) ==
    /\ r.t = "result"
    /\ r.courseId.t = "str"
    /\ r.timestamp.t = "num" \/ (r.timestamp.t = "str" /\ r.timestamp.v = "date")
    /\ r.score.t = "num"
    /\ r.totalQuestions.t = "num"

TimeOf(r) == IF r.timestamp.t = "num" THEN r.timestamp.v ELSE r.timestamp.ms

\* the identity of a stored result: a result without a topic is one of the full quiz
IdentityOf(r) ==
    PrescribedKey(r.courseId.v, IF r.topicId.t = "str" THEN r.topicId.v ELSE NullStr)

PercentageOf(r) ==
    IF r.percentage.t = "num" THEN r.percentage
    ELSE Percentage(r.score.v, r.totalQuestions.v)

\* C10: for every identity with at least one valid stored result, the view
\* maps the identity to the score, totalQuestions and percentage of a stored
\* result with the maximum timestamp among the valid results of that identity,
\* whatever the order of the stored list.
LatestByIdentity ==
    (calls # <<>> /\ calls[Len(calls)].op = "latest") =>
        LET view == calls[Len(calls)].result
            list == resultsHistory.v
            valid == {i \in 1..Len(list) : IsValidResult(list[i])}
        IN  \A i \in valid :
                  /\ view.ok
                  /\ HasItem(view.map, IdentityOf(list[i]))
                  /\ \E j \in valid :
                        /\ IdentityOf(list[j]) = IdentityOf(list[i])
                        /\ \A k \in valid : IdentityOf(list[k]) = IdentityOf(list[i])
                                               => TimeOf(list[k]) <= TimeOf(list[j])
                        /\ view.map[IdentityOf(list[i])].score = list[j].score.v
                        /\ view.map[IdentityOf(list[i])].totalQuestions =
                               list[j].totalQuestions.v
                        /\ view.map[IdentityOf(list[i])].percentage = PercentageOf(list[j])

\* the same property over the stored histories whose entries are all objects
\* with a topicId that is null or a string
LatestByIdentityWellFormed ==
    (\A i \in 1..Length(resultsHistory) :
         /\ resultsHistory.v[i].t = "result"
         /\ resultsHistory.v[i].topicId.t \in {"null", "str"})
    => LatestByIdentity

\* ------------------------------------------------------------------------
\* The application: home page, quiz page, results page (Spec)
\* ------------------------------------------------------------------------
\* the configs QuizPage builds from the URLs /quiz/:courseId/:topicParam: the
\* full quiz, the topic of the catalog, and a topic the catalog does not have
SessionConfigs ==
    {QuizConfig(CourseDemo, NullStr, "full"), QuizConfig(CourseDemo, TopicT1, "topic"),
     QuizConfig(CourseDemo, TopicNone, "topic")}

KeyOf(topicId) == getQuizStateKey(QuizConfig(CourseDemo, topicId, "topic"))

\* what localStorage holds when the application is opened: nothing, or a
\* state saved under an earlier version of the course data
StoredAtStart ==
    {EmptyMap,
     SetItem(EmptyMap, KeyOf(NullStr),
             JSONStringify(SavedQuizState(JNum(1), JArr(<<JNull, JStr("A")>>), JNull,
                                          JArr(<<"q1", "q2">>), CourseDemo, NullStr,
                                          JArr(<<FALSE, TRUE>>)))),
     SetItem(EmptyMap, KeyOf(NullStr),
             JSONStringify(SavedQuizState(JNum(1), JArr(<<JArr(<<"A", "B">>), JStr("B")>>),
                                          JNum(0), JArr(<<"q9", "q1">>), CourseDemo, NullStr,
                                          JUndef))),
     SetItem(EmptyMap, KeyOf(NullStr),
             JSONStringify(SavedQuizState(JNum(1), JArr(<<JNull, JStr("B")>>), JNum(0),
                                          JArr(<<"q2", "q1">>), CourseDemo, NullStr,
                                          JArr(<<TRUE, FALSE>>)))),
     SetItem(EmptyMap, KeyOf(TopicT1),
             JSONStringify(SavedQuizState(JNum(0), JArr(<<JStr("A")>>), JNum(0), JUndef,
                                          CourseDemo, TopicT1, JUndef)))}

\* a mutant: QuizSelection does not call onRefreshStates at its mount
RefreshAtHomeSkipped(store) ==
    /\ inProgressQuizzes' = inProgressQuizzes
    /\ storage' = store

\* HomePage mounts (QuizSelection calls onRefreshStates): the index of App is
\* read again from storage
RefreshAtHome(store) ==
    /\ inProgressQuizzes' = loadAllStatesFromStorage(store).states
    /\ storage' = loadAllStatesFromStorage(store).store

\* the application is open on the home page: the hooks of App have run
Init ==
    /\ \E seed \in StoredAtStart :
          /\ storage = WriteHistory(loadAllStatesFromStorage(seed).store, JArr(<<>>))
          /\ inProgressQuizzes = loadAllStatesFromStorage(seed).states
    /\ resultsHistory = JArr(<<>>)
    /\ now = 1
    /\ calls = <<>>
    /\ NoQuizYet

\* lines 50-124: the session state set for what loadQuizState returned
LoadedOrNew(config, loaded, order, dateNow) ==
    [session |-> IF Truthy(loaded.result) /\ IsArray(loaded.result.questionIds)
                    /\ Length(loaded.result.questionIds) > 0
                 THEN Resume(config, loaded.result, dateNow)
                 ELSE Initialize(order, dateNow),
     store |-> loaded.store]

\* lines 41-127: the load effect; the session state it sets, and storage after it
LoadEffect(store, config, order, dateNow) ==
    IF getQuizStateKey(config) = NullKey \/ FalsyStr(config.courseId)
    THEN [session |-> [Initialize(<<>>, dateNow) EXCEPT !.startTime = JNull], store |-> store]
    ELSE LoadedOrNew(config, loadQuizState(store, config), order, dateNow)

\* the Quiz component is unmounted: its state is gone
Unmount ==
    /\ quizConfig' = NullConfig
    /\ quizHookIndex' = EmptyMap
    /\ currentQuestions' = <<>>
    /\ currentQuestionIndex' = 0
    /\ userAnswers' = <<>>
    /\ startTime' = JNull
    /\ showFeedbackForSingleChoice' = FALSE
    /\ answerStatuses' = <<>>
    /\ checkedAnswers' = <<>>
    /\ isLoaded' = FALSE

\* the state of Quiz after its first effects: what the load effect set, and
\* storage and the index of the hook after the save effect that follows
MountQuiz(config, load, index) ==
    /\ currentQuestions' = load.session.currentQuestions
    /\ currentQuestionIndex' = load.session.currentQuestionIndex
    /\ userAnswers' = load.session.userAnswers
    /\ startTime' = load.session.startTime
    /\ checkedAnswers' = load.session.checkedAnswers
    /\ answerStatuses' = load.session.answerStatuses
    /\ showFeedbackForSingleChoice' = load.session.showFeedbackForSingleChoice
    /\ quizConfig' = config
    /\ isLoaded' = TRUE
    /\ storage' = SaveEffect(load.store, index, config, isLoaded', currentQuestionIndex',
                             userAnswers', startTime', currentQuestions',
                             checkedAnswers').store
    /\ quizHookIndex' = SaveEffect(load.store, index, config, isLoaded', currentQuestionIndex',
                                   userAnswers', startTime', currentQuestions',
                                   checkedAnswers').index

\* a quiz is selected on the home page: QuizPage mounts Quiz, the effect of its
\* hook reads the index, the load effect runs, and the save effect after it
StartQuiz(config) ==
    /\ route = "home"
    /\ now < MaxClock
    /\ \E order \in ShuffledOrders(getQuizItems(config.courseId, config.topicId)) :
          MountQuiz(config,
                    LoadEffect(loadAllStatesFromStorage(storage).store, config, order, now),
                    loadAllStatesFromStorage(storage).states)
    /\ route' = "quiz"
    /\ finished' = finished \ {config}
    /\ now' = now + 1
    /\ UNCHANGED <<inProgressQuizzes, resultsHistory, calls, emitted>>

\* lines 296-319: a question is rendered
Rendered ==
    /\ route = "quiz"
    /\ isLoaded
    /\ Len(currentQuestions) > 0
    /\ currentQuestionIndex \in 0..(Len(currentQuestions) - 1)

currentQuestionData == currentQuestions[currentQuestionIndex + 1]
multipleCorrect == isMultiSelect(currentQuestionData.correctAnswer)

\* Question.tsx line 67
displayFeedbackActive ==
    (showFeedbackForSingleChoice /\ ~multipleCorrect) \/ FlagAt(checkedAnswers, currentQuestionIndex)

\* the save effect after the render that follows a handler
SaveAfterRender ==
    /\ storage' = SaveEffect(storage, quizHookIndex, quizConfig, isLoaded, currentQuestionIndex',
                             userAnswers', startTime, currentQuestions, checkedAnswers').store
    /\ quizHookIndex' = SaveEffect(storage, quizHookIndex, quizConfig, isLoaded,
                                   currentQuestionIndex', userAnswers', startTime,
                                   currentQuestions, checkedAnswers').index

\* a mutant: the checked flag of a multi-select question is left as it is
handleAnswerKeepsChecked(questionIndex, selectedValue) ==
    /\ isLoaded
    /\ userAnswers' = SetAt(userAnswers, questionIndex, selectedValue)
    /\ IF ~isMultiSelect(currentQuestions[questionIndex + 1].correctAnswer)
       THEN /\ answerStatuses' =
                   SetAt(answerStatuses, questionIndex,
                         IF Includes(currentQuestions[questionIndex + 1].correctAnswer,
                                     selectedValue)
                         THEN "correct" ELSE "incorrect")
            /\ showFeedbackForSingleChoice' = TRUE
            /\ UNCHANGED checkedAnswers
       ELSE /\ answerStatuses' = SetAt(answerStatuses, questionIndex, "null")
            /\ UNCHANGED checkedAnswers
            /\ showFeedbackForSingleChoice' = FALSE
    /\ UNCHANGED <<currentQuestionIndex, currentQuestions, startTime, isLoaded, quizConfig,
                   route, emitted, finished, inProgressQuizzes, histVars>>
    /\ SaveAfterRender

\* lines 158-189
handleAnswer(questionIndex, selectedValue) ==
    /\ isLoaded
    /\ userAnswers' = SetAt(userAnswers, questionIndex, selectedValue)
    /\ IF ~isMultiSelect(currentQuestions[questionIndex + 1].correctAnswer)
       THEN /\ answerStatuses' =
                   SetAt(answerStatuses, questionIndex,
                         IF Includes(currentQuestions[questionIndex + 1].correctAnswer,
                                     selectedValue)
                         THEN "correct" ELSE "incorrect")
            /\ showFeedbackForSingleChoice' = TRUE
            /\ UNCHANGED checkedAnswers
       ELSE /\ answerStatuses' = SetAt(answerStatuses, questionIndex, "null")
            /\ checkedAnswers' = SetAt(checkedAnswers, questionIndex, FALSE)
            /\ showFeedbackForSingleChoice' = FALSE
    /\ UNCHANGED <<currentQuestionIndex, currentQuestions, startTime, isLoaded, quizConfig,
                   route, emitted, finished, inProgressQuizzes, histVars>>
    /\ SaveAfterRender

\* Question.tsx lines 76-94: an option of the question shown is clicked
handleOptionChange(value) ==
    /\ Rendered
    /\ value \in currentQuestionData.options
    /\ ~displayFeedbackActive
    /\ LET userAnswer == AnswerAt(userAnswers, currentQuestionIndex)
           isSelected == IF multipleCorrect
                         THEN IsSet(userAnswer) /\ SetHas(userAnswer, value)
                         ELSE userAnswer = JStr(value)
           currentSet == IF IsSet(userAnswer) THEN userAnswer ELSE JSet(<<>>)
       IN  IF multipleCorrect
           THEN handleAnswer(currentQuestionIndex,
                             IF ~isSelected THEN SetAdd(currentSet, value)
                             ELSE SetDelete(currentSet, value))
           ELSE ~isSelected /\ handleAnswer(currentQuestionIndex, JStr(value))
    /\ UNCHANGED calls

\* a mutant: the status is set, the checked flag is not
handleCheckMultiAnswerFlagNotSet(questionIndex) ==
    /\ isLoaded
    /\ answerStatuses' =
           SetAt(answerStatuses, questionIndex,
                 IF IsCorrectMulti(currentQuestions[questionIndex + 1].correctAnswer,
                                   AnswerAt(userAnswers, questionIndex))
                 THEN "correct" ELSE "incorrect")
    /\ UNCHANGED checkedAnswers
    /\ showFeedbackForSingleChoice' = FALSE
    /\ UNCHANGED <<userAnswers, currentQuestionIndex, currentQuestions, startTime, isLoaded,
                   quizConfig, route, emitted, finished, inProgressQuizzes, histVars>>
    /\ SaveAfterRender

\* a mutant: the check compares without the size test (line 199 left out)
handleCheckMultiAnswerNoSize(questionIndex) ==
    /\ isLoaded
    /\ answerStatuses' =
           SetAt(answerStatuses, questionIndex,
                 IF IsCorrectMultiNoSize(currentQuestions[questionIndex + 1].correctAnswer,
                                         AnswerAt(userAnswers, questionIndex))
                 THEN "correct" ELSE "incorrect")
    /\ checkedAnswers' = SetAt(checkedAnswers, questionIndex, TRUE)
    /\ showFeedbackForSingleChoice' = FALSE
    /\ UNCHANGED <<userAnswers, currentQuestionIndex, currentQuestions, startTime, isLoaded,
                   quizConfig, route, emitted, finished, inProgressQuizzes, histVars>>
    /\ SaveAfterRender

\* lines 191-215
handleCheckMultiAnswer(questionIndex) ==
    /\ isLoaded
    /\ answerStatuses' =
           SetAt(answerStatuses, questionIndex,
                 IF IsCorrectMulti(currentQuestions[questionIndex + 1].correctAnswer,
                                   AnswerAt(userAnswers, questionIndex))
                 THEN "correct" ELSE "incorrect")
    /\ checkedAnswers' = SetAt(checkedAnswers, questionIndex, TRUE)
    /\ showFeedbackForSingleChoice' = FALSE
    /\ UNCHANGED <<userAnswers, currentQuestionIndex, currentQuestions, startTime, isLoaded,
                   quizConfig, route, emitted, finished, inProgressQuizzes, histVars>>
    /\ SaveAfterRender

\* Question.tsx lines 96-100 and 239-248: the Check Answer button, shown for a
\* multi-select question not yet checked and enabled for a non-empty Set
handleCheckButtonClick ==
    /\ Rendered
    /\ multipleCorrect
    /\ ~FlagAt(checkedAnswers, currentQuestionIndex)
    /\ IsSet(AnswerAt(userAnswers, currentQuestionIndex))
    /\ Len(AnswerAt(userAnswers, currentQuestionIndex).v) > 0
    /\ handleCheckMultiAnswer(currentQuestionIndex)
    /\ UNCHANGED calls

\* a mutant: the buttons are disabled for a multi-select question only (the
\* two single-select tests of lines 363-364 and 376-377 left out)
NextDisabledMultiOnly == multipleCorrect /\ ~FlagAt(checkedAnswers, currentQuestionIndex)

\* lines 362-366 and 375-379: the Next and the Finish button are disabled
NextDisabled ==
    \/ ~multipleCorrect /\ AnswerAt(userAnswers, currentQuestionIndex) = JNull
    \/ ~multipleCorrect /\ ~showFeedbackForSingleChoice
    \/ multipleCorrect /\ ~FlagAt(checkedAnswers, currentQuestionIndex)

\* the feedback of the question moved to (lines 224-228 and 238-242)
FeedbackAt(index) ==
    /\ ~isMultiSelect(currentQuestions[index + 1].correctAnswer)
    /\ StatusAt(answerStatuses, index) # "null"

\* a mutant: the index is moved without the test of line 221
nextQuestionNotClamped ==
    /\ currentQuestionIndex' = currentQuestionIndex + 1
    /\ showFeedbackForSingleChoice' = FALSE
    /\ UNCHANGED <<userAnswers, answerStatuses, checkedAnswers, currentQuestions, startTime,
                   isLoaded, quizConfig, route, emitted, finished, inProgressQuizzes,
                   histVars>>
    /\ SaveAfterRender

\* lines 218-230
nextQuestion ==
    /\ IF currentQuestionIndex + 1 < Len(currentQuestions)
       THEN /\ currentQuestionIndex' = currentQuestionIndex + 1
            /\ showFeedbackForSingleChoice' = FeedbackAt(currentQuestionIndex + 1)
       ELSE /\ showFeedbackForSingleChoice' = FALSE
            /\ UNCHANGED currentQuestionIndex
    /\ UNCHANGED <<userAnswers, answerStatuses, checkedAnswers, currentQuestions, startTime,
                   isLoaded, quizConfig, route, emitted, finished, inProgressQuizzes,
                   histVars>>
    /\ SaveAfterRender

\* lines 358-372: the Next button, shown before the last question
onNextClick ==
    /\ Rendered
    /\ currentQuestionIndex < Len(currentQuestions) - 1
    /\ ~NextDisabled
    /\ nextQuestion
    /\ UNCHANGED calls

\* lines 232-244
prevQuestion ==
    /\ IF currentQuestionIndex - 1 >= 0
       THEN /\ currentQuestionIndex' = currentQuestionIndex - 1
            /\ showFeedbackForSingleChoice' = FeedbackAt(currentQuestionIndex - 1)
       ELSE /\ showFeedbackForSingleChoice' = FALSE
            /\ UNCHANGED currentQuestionIndex
    /\ UNCHANGED <<userAnswers, answerStatuses, checkedAnswers, currentQuestions, startTime,
                   isLoaded, quizConfig, route, emitted, finished, inProgressQuizzes,
                   histVars>>
    /\ SaveAfterRender

\* lines 350-352: the Previous button, disabled at the first question
onPrevClick ==
    /\ Rendered
    /\ currentQuestionIndex # 0
    /\ prevQuestion
    /\ UNCHANGED calls

\* lines 246-294: the Finish button; onComplete navigates to the results page,
\* whose mount adds the result to the history (ResultsPage.tsx lines 24-35)
finishQuiz ==
    /\ Rendered
    /\ ~(currentQuestionIndex < Len(currentQuestions) - 1)
    /\ ~NextDisabled
    /\ ~(startTime = JNull \/ Len(currentQuestions) = 0 \/ ~isLoaded)
    /\ LET results == FinalResults(quizConfig, currentQuestions, userAnswers, startTime,
                                   now, now)
           cleared == ClearOnFinish(storage, quizHookIndex, quizConfig)
           history == IF IsNumber(results.timestamp)
                      THEN handleAddResult(resultsHistory, results, now)
                      ELSE resultsHistory
       IN  /\ emitted' = [t |-> "emitted", results |-> results, config |-> quizConfig,
                          questions |-> currentQuestions, answers |-> userAnswers,
                          saved |-> loadQuizState(cleared.store, quizConfig).result # JNull]
           /\ resultsHistory' = history
           /\ storage' = WriteHistory(cleared.store, history)
    /\ route' = "results"
    /\ finished' = finished \cup {quizConfig}
    /\ Unmount
    /\ UNCHANGED <<inProgressQuizzes, now, calls>>

\* Quit Quiz / Back to Selection: handleQuizExitForNav navigates home
onBack ==
    /\ route = "quiz"
    /\ route' = "home"
    /\ Unmount
    /\ RefreshAtHome(storage)
    /\ UNCHANGED <<histVars, calls, emitted, finished>>

\* the results page is left for the home page
onNavigateHome ==
    /\ route = "results"
    /\ route' = "home"
    /\ RefreshAtHome(storage)
    /\ UNCHANGED <<histVars, calls, emitted, finished, quizConfig, quizHookIndex,
                   currentQuestions, currentQuestionIndex, userAnswers, startTime,
                   showFeedbackForSingleChoice, answerStatuses, checkedAnswers, isLoaded>>

Next ==
    \/ \E config \in SessionConfigs : StartQuiz(config)
    \/ \E value \in {"A", "B", "C"} : handleOptionChange(value)
    \/ handleCheckButtonClick
    \/ onNextClick
    \/ onPrevClick
    \/ finishQuiz
    \/ onBack
    \/ onNavigateHome

Spec == Init /\ [][Next]_vars

\* C1: when finishQuiz runs on an active session the saved state of the
\* session's identity is gone from storage when onComplete is called with the
\* results; and from then on, until a quiz of the same config is mounted
\* again, loadQuizState of the config returns null and
\* loadAllStatesFromStorage has no entry for its identity.
FinishClearsSavedState ==
    /\ emitted # NoEmission => ~emitted.saved
    /\ \A config \in finished :
          /\ loadQuizState(storage, config).result = JNull
          /\ ~HasItem(loadAllStatesFromStorage(storage).states, getQuizStateKey(config))

\* a quiz of two questions was finished and the home page shown after it
FinishClearsSavedStateWitness ==
    /\ emitted # NoEmission
    /\ Len(emitted.questions) = 2
    /\ emitted.config \in finished
    /\ route = "home"

\* C6: in the results of finishQuiz a single-select question (at most one
\* correct answer) has isCorrect true exactly when the recorded answer is a
\* member of its correct answers; an unanswered question (null) is incorrect.
SingleSelectScoring ==
    emitted # NoEmission =>
        \A i \in 1..Len(emitted.questions) :
            Len(emitted.questions[i].correctAnswer) <= 1 =>
                (emitted.results.answers[i].isCorrect
                 <=> /\ emitted.answers[i].t = "str"
                     /\ \E k \in 1..Len(emitted.questions[i].correctAnswer) :
                           emitted.questions[i].correctAnswer[k] = emitted.answers[i].v)

\* a quiz was finished with its single-select question unanswered, scored incorrect
SingleSelectScoringWitness ==
    /\ emitted # NoEmission
    /\ \E i \in 1..Len(emitted.questions) :
          /\ Len(emitted.questions[i].correctAnswer) <= 1
          /\ emitted.answers[i] = JNull
          /\ ~emitted.results.answers[i].isCorrect

\* C7: in the results of finishQuiz a multi-select question (more than one
\* correct answer) has isCorrect true exactly when the recorded answer is a
\* Set whose elements are the correct answers, in any order; a proper subset,
\* a proper superset, null and an answer that is no Set are incorrect.
MultiSelectScoring ==
    emitted # NoEmission =>
        \A i \in 1..Len(emitted.questions) :
            Len(emitted.questions[i].correctAnswer) > 1 =>
                (emitted.results.answers[i].isCorrect
                 <=> /\ emitted.answers[i].t = "set"
                     /\ Range(emitted.answers[i].v) = Range(emitted.questions[i].correctAnswer))

\* a quiz was finished with the correct answers of its multi-select question
\* selected in another order than the catalog lists them, scored correct
MultiSelectScoringWitness ==
    /\ emitted # NoEmission
    /\ \E i \in 1..Len(emitted.questions) :
          /\ emitted.questions[i].correctAnswer = <<"A", "B">>
          /\ emitted.answers[i] = JSet(<<"B", "A">>)
          /\ emitted.results.answers[i].isCorrect

\* C8: the results of finishQuiz have totalQuestions equal to the number of
\* questions of the session, one AnswerResult per question in session order
\* and questionIds in the same order, score equal to the number of
\* AnswerResults with isCorrect true (between 0 and totalQuestions), and
\* percentage equal to score / totalQuestions * 100.
ResultsRecord ==
    emitted # NoEmission =>
        LET r == emitted.results
            n == Len(emitted.questions)
        IN  /\ r.totalQuestions = JNum(n)
            /\ Len(r.answers) = n
            /\ Len(r.questionIds) = n
            /\ \A i \in 1..n :
                  /\ r.answers[i].questionId = emitted.questions[i].id
                  /\ r.questionIds[i] = emitted.questions[i].id
            /\ r.score = JNum(Cardinality({i \in 1..n : r.answers[i].isCorrect}))
            /\ r.score.v \in 0..n
            /\ r.percentage.t = "num"
            /\ r.percentage.v[1] * n = r.score.v * 100 * r.percentage.v[2]

\* a quiz of two questions was finished with one of them correct: 50 percent
ResultsRecordWitness ==
    /\ emitted # NoEmission
    /\ Len(emitted.questions) = 2
    /\ emitted.results.score = JNum(1)
    /\ emitted.results.percentage = JNum(<<50, 1>>)
    /\ emitted.results.answers[1].questionId = "q2"

\* the session's current state as JSON text: the sets written as arrays
SessionAsStored ==
    [t |-> "json",
     v |-> [t |-> "state",
            currentIndex |-> [t |-> "num", v |-> currentQuestionIndex],
            userAnswers |->
                [t |-> "arr",
                 v |-> [i \in 1..Len(userAnswers) |->
                           IF userAnswers[i].t = "set"
                           THEN [t |-> "arr", v |-> userAnswers[i].v]
                           ELSE userAnswers[i]]],
            startTime |-> startTime,
            questionIds |-> [t |-> "arr",
                             v |-> [i \in 1..Len(currentQuestions) |-> currentQuestions[i].id]],
            courseId |-> quizConfig.courseId,
            topicId |-> quizConfig.topicId,
            checkedAnswers |-> [t |-> "arr", v |-> checkedAnswers]]]

\* C15: in an active session with an identity and at least one question, once
\* an operation (record answer, check answer, next, prev) and the save that
\* follows it are done, the value stored under the session's identity is the
\* session's current state: currentIndex, userAnswers with the sets written as
\* arrays, checkedAnswers, startTime, questionIds in session order, courseId
\* and topicId.
PersistenceSideEffect ==
    (/\ route = "quiz" /\ isLoaded /\ Len(currentQuestions) > 0
     /\ quizConfig.courseId # <<>>) =>
        /\ PrescribedKey(quizConfig.courseId, quizConfig.topicId) \in DOMAIN storage
        /\ storage[PrescribedKey(quizConfig.courseId, quizConfig.topicId)] = SessionAsStored

\* a session on its second question, a multi-select question answered with a
\* set of two keys and checked
PersistenceSideEffectWitness ==
    /\ route = "quiz" /\ isLoaded
    /\ Len(currentQuestions) = 2
    /\ currentQuestionIndex = 1
    /\ userAnswers[2] = JSet(<<"B", "A">>)
    /\ checkedAnswers[2]
    /\ userAnswers[1] = JStr("A")
    /\ startTime = JNum(1)

\* ------------------------------------------------------------------------
\* The results page mounts after a finished quiz: SpecResultsMount
\* ------------------------------------------------------------------------
\* getStorageValue('quizResults', []): the stored value parsed, the default
\* when the key is absent or its text does not parse
getStorageValue(store) ==
    IF HasItem(store, KeyQuizResults) /\ JSONParse(store[KeyQuizResults]).ok
    THEN JSONParse(store[KeyQuizResults]).v
    ELSE JArr(<<>>)

\* the effects of the mount that have run, in the order they ran
EffectsRun(log) == {log[i].op : i \in 1..Len(log)}

\* the results page is mounted and its effects are logged in calls
ResultsMounting ==
    /\ calls # <<>>
    /\ calls[1].op = "ResultsMount"

\* a mutant: the write of App is not held back until the effects of the mount
\* commit have run
AppWriteReadyBeforeChildEffects(log) ==
    /\ "addResultToHistory" \in EffectsRun(log)
    /\ "AppWrite" \notin EffectsRun(log)

\* the effect of App's useLocalStorage runs in the commit of the render that
\* setResultsHistory caused: after the effects of the commit that mounted the
\* results page (the write of Results and the effect of ResultsPage)
AppWriteReady(log) ==
    /\ "addResultToHistory" \in EffectsRun(log)
    /\ "ResultsWrite" \in EffectsRun(log)
    /\ "AppWrite" \notin EffectsRun(log)

\* Quiz.tsx lines 246-294 and App.tsx lines 98-104: the Finish button;
\* onComplete navigates to the results page, ResultsPage and Results render,
\* and the useState initializer of Results' useLocalStorage reads the history
finishQuizAndNavigate ==
    /\ Rendered
    /\ ~(currentQuestionIndex < Len(currentQuestions) - 1)
    /\ ~NextDisabled
    /\ ~(startTime = JNull \/ Len(currentQuestions) = 0 \/ ~isLoaded)
    /\ LET results == FinalResults(quizConfig, currentQuestions, userAnswers, startTime,
                                   now, now)
           cleared == ClearOnFinish(storage, quizHookIndex, quizConfig)
       IN  /\ emitted' = [t |-> "emitted", results |-> results, config |-> quizConfig,
                          questions |-> currentQuestions, answers |-> userAnswers,
                          saved |-> loadQuizState(cleared.store, quizConfig).result # JNull]
           /\ storage' = cleared.store
           /\ calls' = <<[op |-> "ResultsMount",
                          allStoredResults |-> getStorageValue(cleared.store)]>>
    /\ route' = "results"
    /\ finished' = finished \cup {quizConfig}
    /\ Unmount
    /\ UNCHANGED <<inProgressQuizzes, resultsHistory, now>>

\* the effect of Results' useLocalStorage: its value is written back
ResultsWriteEffect ==
    /\ ResultsMounting
    /\ "ResultsWrite" \notin EffectsRun(calls)
    /\ storage' = WriteHistory(storage, calls[1].allStoredResults)
    /\ calls' = Append(calls, [op |-> "ResultsWrite"])
    /\ UNCHANGED <<inProgressQuizzes, histVars, quizVars>>

\* ResultsPage.tsx lines 24-35: the effect of ResultsPage calls
\* addResultToHistory, which sets the history state of App
ResultsPageEffect ==
    /\ ResultsMounting
    /\ "addResultToHistory" \notin EffectsRun(calls)
    /\ resultsHistory' = IF IsNumber(emitted.results.timestamp)
                         THEN handleAddResult(resultsHistory, emitted.results, now)
                         ELSE resultsHistory
    /\ calls' = Append(calls, [op |-> "addResultToHistory"])
    /\ UNCHANGED <<storeVars, now, quizVars>>

\* the effect of App's useLocalStorage: the new history is written
AppWriteEffect ==
    /\ ResultsMounting
    /\ AppWriteReady(calls)
    /\ storage' = WriteHistory(storage, resultsHistory)
    /\ calls' = Append(calls, [op |-> "AppWrite"])
    /\ UNCHANGED <<inProgressQuizzes, histVars, quizVars>>

\* every effect of the mount has run
ResultsMountSettled ==
    /\ ResultsMounting
    /\ {"ResultsWrite", "addResultToHistory", "AppWrite"} \subseteq EffectsRun(calls)

NextResultsMount ==
    \/ \E config \in SessionConfigs : StartQuiz(config)
    \/ \E value \in {"A", "B", "C"} : handleOptionChange(value)
    \/ handleCheckButtonClick
    \/ onNextClick
    \/ onPrevClick
    \/ finishQuizAndNavigate
    \/ ResultsWriteEffect
    \/ ResultsPageEffect
    \/ AppWriteEffect
    \/ onBack
    \/ ResultsMountSettled /\ onNavigateHome

SpecResultsMount == Init /\ [][NextResultsMount]_vars

\* C11: once the effects of the mount of the results view have run, in
\* whichever order the write of the results view's copy and the update of the
\* application's history ran, the history stored under quizResults holds an
\* entry with the score, courseId, topicId and timestamp of the emitted record.
HistoryHoldsEmittedResult ==
    ResultsMountSettled =>
        \E i \in 1..Len(StoredHistory.v) :
            /\ StoredHistory.v[i].score = emitted.results.score
            /\ StoredHistory.v[i].courseId = emitted.results.courseId
            /\ StoredHistory.v[i].topicId = emitted.results.topicId
            /\ StoredHistory.v[i].timestamp = emitted.results.timestamp

\* the results view mounted for a quiz of the topic t1, the application's
\* history was updated before the results view wrote its copy back, and every
\* effect has run
HistoryHoldsEmittedResultWitness ==
    /\ ResultsMountSettled
    /\ calls[2].op = "addResultToHistory"
    /\ calls[3].op = "ResultsWrite"
    /\ emitted.results.topicId = JStr(TopicT1)
    /\ Len(StoredHistory.v) = 1

\* ------------------------------------------------------------------------
\* The handlers of the session engine called as Question receives them
\* (onAnswer, onCheckAnswer), without the gating of Question.tsx: SpecEngine
\* ------------------------------------------------------------------------
\* the values handed to onAnswer: an option key for a single-select question,
\* a Set of option keys for a multi-select question
EngineSingleValues == {JStr("A"), JStr("B")}
EngineSetValues ==
    {JSet(<<>>), JSet(<<"A">>), JSet(<<"A", "B">>), JSet(<<"B", "A">>), JSet(<<"A", "B", "C">>)}

\* Quiz.tsx line 337: onAnswer={handleAnswer}
onAnswer(questionIndex, value) ==
    /\ Rendered
    /\ questionIndex \in 0..(Len(currentQuestions) - 1)
    /\ IF isMultiSelect(currentQuestions[questionIndex + 1].correctAnswer)
       THEN IsSet(value) ELSE IsString(value)
    /\ handleAnswer(questionIndex, value)
    /\ calls' = <<[op |-> "handleAnswer", questionIndex |-> questionIndex, value |-> value,
                   wasChecked |-> FlagAt(checkedAnswers, questionIndex)]>>

\* Quiz.tsx line 338: onCheckAnswer={handleCheckMultiAnswer} for a multi-select question
onCheckAnswer(questionIndex) ==
    /\ Rendered
    /\ questionIndex \in 0..(Len(currentQuestions) - 1)
    /\ isMultiSelect(currentQuestions[questionIndex + 1].correctAnswer)
    /\ handleCheckMultiAnswer(questionIndex)
    /\ calls' = <<[op |-> "handleCheckMultiAnswer", questionIndex |-> questionIndex,
                   answer |-> AnswerAt(userAnswers, questionIndex)]>>

NextEngine ==
    \/ \E config \in SessionConfigs : StartQuiz(config)
    \/ \E questionIndex \in 0..1, value \in EngineSingleValues \cup EngineSetValues :
           onAnswer(questionIndex, value)
    \/ \E questionIndex \in 0..1 : onCheckAnswer(questionIndex)
    \/ onNextClick
    \/ onPrevClick
    \/ onBack

SpecEngine == Init /\ [][NextEngine]_vars

\* the question at a 0-based index of the session is multi-select
MultiSelectAt(index) == Len(currentQuestions[index + 1].correctAnswer) > 1

\* the answers, statuses and checked flags of the questions other than the one
\* at index are what they were
OthersUnchanged(index) ==
    /\ Len(userAnswers') = Len(userAnswers)
    /\ Len(answerStatuses') = Len(answerStatuses)
    /\ Len(checkedAnswers') = Len(checkedAnswers)
    /\ \A j \in 1..Len(userAnswers) : j # index + 1 => userAnswers'[j] = userAnswers[j]
    /\ \A j \in 1..Len(answerStatuses) : j # index + 1 => answerStatuses'[j] = answerStatuses[j]
    /\ \A j \in 1..Len(checkedAnswers) : j # index + 1 => checkedAnswers'[j] = checkedAnswers[j]

\* C12: handleAnswer(i, v) on a single-select question sets status[i] to
\* correct if v is one of the question's correctAnswers and to incorrect
\* otherwise, makes the feedback visible, sets userAnswers[i] to v, and leaves
\* the answer, status and checked flag of every other question unchanged.
RecordAnswerSingleSelect ==
    [][\A i \in 0..(Len(currentQuestions) - 1), v \in EngineSingleValues :
          (Rendered /\ ~MultiSelectAt(i) /\ handleAnswer(i, v)) =>
              /\ answerStatuses'[i + 1] =
                     (IF \E k \in 1..Len(currentQuestions[i + 1].correctAnswer) :
                             currentQuestions[i + 1].correctAnswer[k] = v.v
                      THEN "correct" ELSE "incorrect")
              /\ showFeedbackForSingleChoice'
              /\ userAnswers'[i + 1] = v
              /\ OthersUnchanged(i)]_vars

\* handleAnswer stored the wrong option B on the single-select question of a
\* session of two questions: incorrect, feedback visible
RecordAnswerSingleSelectWitness ==
    /\ Rendered
    /\ Len(currentQuestions) = 2
    /\ calls # <<>>
    /\ calls[1].op = "handleAnswer"
    /\ calls[1].value = JStr("B")
    /\ userAnswers[calls[1].questionIndex + 1] = JStr("B")
    /\ answerStatuses[calls[1].questionIndex + 1] = "incorrect"
    /\ showFeedbackForSingleChoice

\* C13: handleAnswer(i, v) on a multi-select question sets userAnswers[i] to
\* the set v, status[i] to null and checked[i] to false, also when the question
\* had been checked, and the feedback is not visible for the question
\* afterwards: it has to be checked again.
RecordAnswerMultiSelect ==
    [][\A i \in 0..(Len(currentQuestions) - 1), v \in EngineSetValues :
          (Rendered /\ MultiSelectAt(i) /\ handleAnswer(i, v)) =>
              /\ userAnswers'[i + 1] = v
              /\ answerStatuses'[i + 1] = "null"
              /\ checkedAnswers'[i + 1] = FALSE
              /\ ~showFeedbackForSingleChoice'
              /\ OthersUnchanged(i)]_vars

\* handleAnswer replaced the answer of a multi-select question that had been
\* checked: its status is null and it is not checked
RecordAnswerMultiSelectWitness ==
    /\ Rendered
    /\ calls # <<>>
    /\ calls[1].op = "handleAnswer"
    /\ calls[1].wasChecked
    /\ calls[1].value = JSet(<<"A", "B">>)
    /\ MultiSelectAt(calls[1].questionIndex)
    /\ userAnswers[calls[1].questionIndex + 1] = JSet(<<"A", "B">>)
    /\ answerStatuses[calls[1].questionIndex + 1] = "null"
    /\ ~checkedAnswers[calls[1].questionIndex + 1]

\* C14: handleCheckMultiAnswer(i) on a multi-select question sets checked[i]
\* to true and status[i] to correct exactly when the answer is a set of the
\* size of correctAnswers that has every correct key, to incorrect otherwise
\* (an empty set, no answer); no answer changes, nor the status or the checked
\* flag of another question.
CheckAnswerMultiSelect ==
    [][\A i \in 0..(Len(currentQuestions) - 1) :
          (Rendered /\ MultiSelectAt(i) /\ handleCheckMultiAnswer(i)) =>
              /\ checkedAnswers'[i + 1] = TRUE
              /\ answerStatuses'[i + 1] =
                     (IF /\ userAnswers[i + 1].t = "set"
                         /\ Len(userAnswers[i + 1].v) = Len(currentQuestions[i + 1].correctAnswer)
                         /\ \A k \in 1..Len(currentQuestions[i + 1].correctAnswer) :
                               \E m \in 1..Len(userAnswers[i + 1].v) :
                                   userAnswers[i + 1].v[m] = currentQuestions[i + 1].correctAnswer[k]
                      THEN "correct" ELSE "incorrect")
              /\ userAnswers' = userAnswers
              /\ OthersUnchanged(i)]_vars

\* handleCheckMultiAnswer ran on a multi-select question without an answer:
\* checked, incorrect
CheckAnswerMultiSelectWitness ==
    /\ Rendered
    /\ calls # <<>>
    /\ calls[1].op = "handleCheckMultiAnswer"
    /\ calls[1].answer = JNull
    /\ checkedAnswers[calls[1].questionIndex + 1]
    /\ answerStatuses[calls[1].questionIndex + 1] = "incorrect"
    /\ userAnswers[calls[1].questionIndex + 1] = JNull

\* ------------------------------------------------------------------------
\* The settings page: Clear All Saved Progress & Results (SpecClear)
\* ------------------------------------------------------------------------
\* a key of a course the catalog does not have, and a key that holds the
\* prefix but does not start with it
KeyForeignCourse == QUIZ_STATE_PREFIX \o <<"x", "_", "f", "u", "l", "l">>
KeyNotPrefixed == <<"m", "y", "_">> \o QUIZ_STATE_PREFIX

\* the keys localStorage can hold when the application is opened
ClearKeys ==
    {KeyOf(NullStr), KeyOf(TopicT1), KeyOf(TopicNone), KeyForeignCourse, KeyNotPrefixed,
     KeyQuizResults, KeySelectedCourse}

\* what is stored under a key: a saved state, a history, a course id
ClearValue(key) ==
    IF key = KeyQuizResults THEN JSONStringifyHistory(JArr(<<ResultAt(1), ResultAt(2)>>))
    ELSE IF key = KeySelectedCourse THEN [t |-> "json", v |-> JStr(CourseDemo)]
    ELSE JSONStringify(SavedQuizState(JNum(0), JArr(<<JStr("A")>>), JNum(0), JArr(<<"q1">>),
                                      CourseDemo, NullStr, JArr(<<TRUE>>)))

\* localStorage when the application is opened: some of the keys, the states
\* under some of them no JSON
ClearSeeds ==
    {[k \in keys |-> IF k \in broken THEN Garbage ELSE ClearValue(k)] :
        keys \in SUBSET ClearKeys, broken \in SUBSET {KeyOf(TopicT1), KeyForeignCourse}}

\* the settings page is shown: the hooks of App have run on what storage held
InitClear ==
    /\ \E seed \in ClearSeeds :
          /\ storage = WriteHistory(loadAllStatesFromStorage(seed).store, getStorageValue(seed))
          /\ inProgressQuizzes = loadAllStatesFromStorage(seed).states
          /\ resultsHistory = getStorageValue(seed)
    /\ now = 1
    /\ calls = <<>>
    /\ route = "settings"
    /\ QuizUnmounted
    /\ emitted = NoEmission
    /\ finished = {}

\* SettingsPage.tsx lines 8-15: the button, and the answer to window.confirm
handleClearData(confirmed) ==
    /\ Len(calls) < 2
    /\ IF confirmed
       THEN /\ storage' = clearAllQuizStates(storage).store
            /\ inProgressQuizzes' = clearAllQuizStates(storage).index
       ELSE UNCHANGED storeVars
    /\ calls' = Append(calls, [op |-> "handleClearData", confirmed |-> confirmed,
                               before |-> storage, indexBefore |-> inProgressQuizzes])
    /\ UNCHANGED <<histVars, quizVars>>

NextClear == \E confirmed \in BOOLEAN : handleClearData(confirmed)

SpecClear == InitClear /\ [][NextClear]_vars

\* the key starts with quizState_
InQuizStateNamespace(key) ==
    /\ Len(key) >= 10
    /\ <<key[1], key[2], key[3], key[4], key[5], key[6], key[7], key[8], key[9], key[10]>> =
           <<"q", "u", "i", "z", "S", "t", "a", "t", "e", "_">>

\* C16: after clearAll no key of storage starts with the quiz-state prefix
\* (whether or not it is the key of a quiz of the catalog), the key quizResults
\* is gone, the in-memory index is empty, and every other key holds what it
\* held before.
ClearAllFrame ==
    (calls # <<>> /\ calls[Len(calls)].op = "handleClearData" /\ calls[Len(calls)].confirmed) =>
        LET before == calls[Len(calls)].before
        IN  /\ \A k \in DOMAIN storage :
                  ~InQuizStateNamespace(k) /\ k # <<"q", "u", "i", "z", "R", "e", "s", "u", "l", "t", "s">>
            /\ inProgressQuizzes = EmptyMap
            /\ DOMAIN storage \subseteq DOMAIN before
            /\ \A k \in DOMAIN before :
                  (~InQuizStateNamespace(k) /\ k # <<"q", "u", "i", "z", "R", "e", "s", "u", "l", "t", "s">>)
                      => (k \in DOMAIN storage /\ storage[k] = before[k])

\* clearAll ran on a storage that held a state of a quiz in progress, a state
\* under a key of no quiz of the catalog, a history and a selected course: the
\* selected course is what is left
ClearAllFrameWitness ==
    /\ Len(calls) = 1
    /\ calls[1].confirmed
    /\ {KeyOf(NullStr), KeyOf(TopicNone), KeyForeignCourse, KeyNotPrefixed, KeyQuizResults,
        KeySelectedCourse} \subseteq DOMAIN calls[1].before
    /\ calls[1].indexBefore # EmptyMap
    /\ DOMAIN storage = {KeyNotPrefixed, KeySelectedCourse}

\* ------------------------------------------------------------------------
\* The application with its settings page: SpecSettings
\* ------------------------------------------------------------------------
\* Header: the Settings link; a mounted Quiz is unmounted
onSettingsLink ==
    /\ route # "settings"
    /\ route' = "settings"
    /\ Unmount
    /\ UNCHANGED <<storeVars, histVars, calls, emitted, finished>>

\* the Clear button of the settings page
onClearButton(confirmed) ==
    /\ route = "settings"
    /\ handleClearData(confirmed)

\* Header: the title link, from the settings page
onHomeLink ==
    /\ route = "settings"
    /\ route' = "home"
    /\ RefreshAtHome(storage)
    /\ UNCHANGED <<histVars, calls, emitted, finished, quizConfig, quizHookIndex,
                   currentQuestions, currentQuestionIndex, userAnswers, startTime,
                   showFeedbackForSingleChoice, answerStatuses, checkedAnswers, isLoaded>>

NextSettings ==
    \/ \E config \in SessionConfigs : StartQuiz(config)
    \/ \E value \in {"A", "B", "C"} : handleOptionChange(value)
    \/ handleCheckButtonClick
    \/ onNextClick
    \/ onPrevClick
    \/ finishQuiz
    \/ onBack
    \/ onNavigateHome
    \/ onSettingsLink
    \/ \E confirmed \in BOOLEAN : onClearButton(confirmed)
    \/ onHomeLink

SpecSettings == Init /\ [][NextSettings]_vars

\* the timestamps of the results a storage holds under quizResults
TimestampsStored(store) ==
    IF KeyQuizResults \in DOMAIN store /\ store[KeyQuizResults].t = "json"
    THEN {store[KeyQuizResults].v.v[i].timestamp : i \in 1..Len(store[KeyQuizResults].v.v)}
    ELSE {}

\* the timestamps of the attempts the latest-by-identity view shows
TimestampsShown ==
    LET view == completedQuizHistory(resultsHistory)
    IN  IF view.ok THEN {JNum(view.map[k].timestamp) : k \in DOMAIN view.map} ELSE {}

\* C17: after a confirmed clearAll, whatever is done afterwards, neither the
\* history stored under quizResults nor the latest-by-identity view holds a
\* result that was in the history when it was cleared.
ClearAllIrreversible ==
    \A c \in 1..Len(calls) :
        (calls[c].op = "handleClearData" /\ calls[c].confirmed) =>
            /\ TimestampsStored(storage) \cap TimestampsStored(calls[c].before) = {}
            /\ TimestampsShown \cap TimestampsStored(calls[c].before) = {}

\* ------------------------------------------------------------------------
\* The mount of Quiz step by step: the first render, then its effects
\* (SpecLoading)
\* ------------------------------------------------------------------------
\* Quiz is rendered for the first time and its effects have not run
Loading == route = "quiz" /\ ~isLoaded

\* a quiz is selected on the home page: QuizPage renders Quiz with the initial
\* values of its useState (Quiz.tsx lines 26-33); 'Loading quiz state...' is shown
QuizPageMount(config) ==
    /\ route = "home"
    /\ now < MaxClock
    /\ route' = "quiz"
    /\ quizConfig' = config
    /\ quizHookIndex' = EmptyMap
    /\ currentQuestions' = <<>>
    /\ currentQuestionIndex' = 0
    /\ userAnswers' = <<>>
    /\ startTime' = JNull
    /\ showFeedbackForSingleChoice' = FALSE
    /\ answerStatuses' = <<>>
    /\ checkedAnswers' = <<>>
    /\ isLoaded' = FALSE
    /\ finished' = finished \ {config}
    /\ calls' = <<[op |-> "mount", store |-> storage]>>
    /\ UNCHANGED <<storeVars, histVars, emitted>>

\* the log of a quiz that is loading: the storage at its mount, then the last
\* call made and the number of calls so far
CallsWhileLoading == IF Len(calls) = 2 THEN calls[2].n ELSE 0

\* a handler is called before the state is loaded: handleAnswer (line 159),
\* handleCheckMultiAnswer (line 192) and finishQuiz (line 247) return at once
HandlerWhileLoading(handler) ==
    /\ Loading
    /\ CallsWhileLoading < MaxLoadingCalls
    /\ calls' = <<calls[1], [op |-> handler, n |-> CallsWhileLoading + 1]>>
    /\ UNCHANGED <<storeVars, histVars, quizVars>>

\* the save effect runs for the first render (lines 131-136)
SaveEffectWhileLoading ==
    /\ Loading
    /\ CallsWhileLoading < MaxLoadingCalls
    /\ storage' = SaveEffect(storage, quizHookIndex, quizConfig, isLoaded, currentQuestionIndex,
                             userAnswers, startTime, currentQuestions, checkedAnswers).store
    /\ quizHookIndex' = SaveEffect(storage, quizHookIndex, quizConfig, isLoaded,
                                   currentQuestionIndex, userAnswers, startTime,
                                   currentQuestions, checkedAnswers).index
    /\ calls' = <<calls[1], [op |-> "saveEffect", n |-> CallsWhileLoading + 1]>>
    /\ UNCHANGED <<inProgressQuizzes, histVars, route, quizConfig, currentQuestions,
                   currentQuestionIndex, userAnswers, startTime, showFeedbackForSingleChoice,
                   answerStatuses, checkedAnswers, isLoaded, emitted, finished>>

\* the effect of the hook reads the index, the load effect runs (lines 41-127),
\* Quiz renders again and the save effect runs for the loaded state
LoadStep ==
    /\ Loading
    /\ \E order \in ShuffledOrders(getQuizItems(quizConfig.courseId, quizConfig.topicId)) :
          MountQuiz(quizConfig,
                    LoadEffect(loadAllStatesFromStorage(storage).store, quizConfig, order, now),
                    loadAllStatesFromStorage(storage).states)
    /\ now' = now + 1
    /\ calls' = <<[op |-> "load", calledWhileLoading |-> CallsWhileLoading = MaxLoadingCalls]>>
    /\ UNCHANGED <<route, inProgressQuizzes, resultsHistory, emitted, finished>>

\* Back to Selection / Quit Quiz: the view shown while loading has no button
\* (Quiz.tsx lines 299-301)
onBackButton ==
    /\ isLoaded
    /\ onBack

NextLoading ==
    \/ \E config \in SessionConfigs : QuizPageMount(config)
    \/ \E handler \in {"handleAnswer", "handleCheckMultiAnswer", "finishQuiz"} :
           HandlerWhileLoading(handler)
    \/ SaveEffectWhileLoading
    \/ LoadStep
    \/ \E value \in {"A", "B", "C"} : handleOptionChange(value)
    \/ handleCheckButtonClick
    \/ onNextClick
    \/ onPrevClick
    \/ finishQuiz
    \/ onBackButton
    \/ onNavigateHome

SpecLoading == Init /\ [][NextLoading]_vars

\* the state saved under the identity of the quiz when it was mounted, if it is
\* one the load accepts: JSON of an object with a numeric currentIndex and
\* lists userAnswers and questionIds of one length, questionIds not empty
SavedAtMount ==
    LET store == calls[1].store
        key == PrescribedKey(quizConfig.courseId, quizConfig.topicId)
    IN  IF /\ key \in DOMAIN store
           /\ store[key].t = "json"
           /\ store[key].v.t = "state"
           /\ store[key].v.currentIndex.t = "num"
           /\ store[key].v.userAnswers.t = "arr"
           /\ store[key].v.questionIds.t = "arr"
           /\ Len(store[key].v.userAnswers.v) = Len(store[key].v.questionIds.v)
           /\ Len(store[key].v.questionIds.v) > 0
        THEN store[key].v
        ELSE [t |-> "none"]

\* the ids of a list that are ids of questions of the catalog's course, in order
ResolvableIds(ids) ==
    LET Known(id) == \E c \in 1..Len(Courses) : \E q \in 1..Len(Courses[c].quizItems) :
                         Courses[c].id = quizConfig.courseId /\ Courses[c].quizItems[q].id = id
    IN  SelectSeq(ids, Known)

\* while loading: the state is the initial one and storage is what it was at the mount
NothingHappensWhileLoading ==
    Loading =>
        /\ storage = calls[1].store
        /\ currentQuestions = <<>> /\ userAnswers = <<>> /\ answerStatuses = <<>>
        /\ checkedAnswers = <<>> /\ currentQuestionIndex = 0 /\ startTime = JNull
        /\ ~showFeedbackForSingleChoice

\* the step that ends the loading resumes from the state saved at the mount,
\* or initializes a new session when there was none
LoadReadsSavedState ==
    (Loading /\ isLoaded') =>
        IF SavedAtMount.t = "state"
        THEN /\ [i \in 1..Len(currentQuestions') |-> currentQuestions'[i].id] =
                    ResolvableIds(SavedAtMount.questionIds.v)
             /\ Len(userAnswers') = Len(SavedAtMount.userAnswers.v)
             /\ SavedAtMount.startTime.t = "num" => startTime' = SavedAtMount.startTime
        ELSE /\ currentQuestionIndex' = 0
             /\ \A i \in 1..Len(userAnswers') : userAnswers'[i] = JNull
             /\ startTime' = JNum(now)

\* C18: a session is Loading, then Initializing or Resuming, then Active, then
\* Finished. While it is Loading, record answer, check answer and finish
\* change nothing and nothing is written to storage, so the step that ends the
\* loading reads the state that was saved when the quiz was mounted; and a
\* result is emitted only by a loaded session that shows a question.
LoadingBeforeActive ==
    /\ []NothingHappensWhileLoading
    /\ [][/\ LoadReadsSavedState
          /\ Loading => (emitted' = emitted /\ (Loading' \/ (route' = "quiz" /\ isLoaded')))
          /\ emitted' # emitted => (route = "quiz" /\ isLoaded /\ Len(currentQuestions) > 0)]_vars

\* as many calls as the bound allows were made while the quiz was loading, and
\* the session then resumed on the second question of the state saved before
LoadingBeforeActiveWitness ==
    /\ route = "quiz" /\ isLoaded
    /\ Len(calls) = 1
    /\ calls[1].op = "load"
    /\ calls[1].calledWhileLoading
    /\ currentQuestionIndex = 1
    /\ startTime = JNum(0)
    /\ Len(currentQuestions) = 2

\* ------------------------------------------------------------------------
\* Calls with a config that has no identity (SpecNoIdentity)
\* ------------------------------------------------------------------------
\* null, and config objects whose courseId is empty or missing
NoIdentityConfigs ==
    {NullConfig} \cup
    {QuizConfig(c, t, IF t = NullStr THEN "full" ELSE "topic") :
        c \in {<<>>, UndefStr}, t \in {NullStr, TopicT1}}

\* the states handed to save: null (the explicit clear) and session states
NoIdentityStates ==
    {JNull,
     SavedQuizState(JNum(0), JArr(<<JNull>>), JNum(1), JArr(<<"q1">>), CourseDemo, NullStr,
                    JArr(<<FALSE>>)),
     SavedQuizState(JNum(1), JArr(<<JStr("A"), JSet(<<"A", "B">>)>>), JNum(1),
                    JArr(<<"q1", "q2">>), CourseDemo, NullStr, JArr(<<FALSE, TRUE>>))}

\* the application is open on the home page, with or without a saved state
InitNoIdentity == Init

\* what a call leaves in the log: the state before it, and how it ended
CallRecord(op, config, raised, result) ==
    [op |-> op, config |-> config, raised |-> raised, result |-> result,
     store |-> storage, index |-> inProgressQuizzes]

\* getQuizStateKey(config)
NoIdentityResolve(config) ==
    /\ calls' = <<CallRecord("resolve", config, FALSE, getQuizStateKey(config))>>
    /\ UNCHANGED <<storeVars, histVars, quizVars>>

\* saveQuizState(config, state)
NoIdentitySave(config, state) ==
    /\ storage' = saveQuizState(storage, inProgressQuizzes, config, state).store
    /\ inProgressQuizzes' = saveQuizState(storage, inProgressQuizzes, config, state).index
    /\ calls' = <<CallRecord("save", config, FALSE, JUndef)>>
    /\ UNCHANGED <<histVars, quizVars>>

\* loadQuizState(config)
NoIdentityLoad(config) ==
    /\ storage' = loadQuizState(storage, config).store
    /\ calls' = <<CallRecord("load", config, FALSE, loadQuizState(storage, config).result)>>
    /\ UNCHANGED <<inProgressQuizzes, histVars, quizVars>>

\* Quiz.tsx line 22, const { courseId, topicId } = quizConfig: a TypeError
\* when quizConfig is null
DestructuringThrows(config) == config = NullConfig

\* Quiz is rendered with the config. When its body throws, React has no error
\* boundary to render instead and unmounts the application; otherwise the
\* load effect and the save effect run as at every mount.
NoIdentityMount(config) ==
    /\ route = "home"
    /\ IF DestructuringThrows(config)
       THEN /\ route' = "error"
            /\ calls' = <<CallRecord("mount", config, TRUE, JUndef)>>
            /\ UNCHANGED <<storeVars, histVars, quizConfig, quizHookIndex, currentQuestions,
                           currentQuestionIndex, userAnswers, startTime,
                           showFeedbackForSingleChoice, answerStatuses, checkedAnswers,
                           isLoaded, emitted, finished>>
       ELSE /\ route' = "quiz"
            /\ MountQuiz(config,
                         LoadEffect(loadAllStatesFromStorage(storage).store, config, <<>>, now),
                         loadAllStatesFromStorage(storage).states)
            /\ calls' = <<CallRecord("mount", config, FALSE, JUndef)>>
            /\ UNCHANGED <<inProgressQuizzes, histVars, emitted, finished>>

NextNoIdentity ==
    \/ \E config \in NoIdentityConfigs : NoIdentityResolve(config)
    \/ \E config \in NoIdentityConfigs, state \in NoIdentityStates :
           NoIdentitySave(config, state)
    \/ \E config \in NoIdentityConfigs : NoIdentityLoad(config)
    \/ \E config \in NoIdentityConfigs : NoIdentityMount(config)
    \/ onBackButton

SpecNoIdentity == InitNoIdentity /\ [][NextNoIdentity]_vars

saveQuizStateQuotaExceeded(store, index, config, state) ==
    LET key == getQuizStateKey(config)
    IN  IF key = NullKey THEN [store |-> store, index |-> index, raised |-> FALSE]
        ELSE IF state = JNull
             THEN [store |-> RemoveItem(store, key), index |-> RemoveItem(index, key),
                   raised |-> FALSE]
             ELSE [store |-> store, index |-> index, raised |-> TRUE]

\* saveQuizState(config, state) of App's hook called on the home page while the
\* quota is exceeded
QuotaSave(config, state) ==
    /\ route = "home"
    /\ storage' = saveQuizStateQuotaExceeded(storage, inProgressQuizzes, config, state).store
    /\ inProgressQuizzes' =
           saveQuizStateQuotaExceeded(storage, inProgressQuizzes, config, state).index
    /\ calls' = <<CallRecord("save", config,
                     saveQuizStateQuotaExceeded(storage, inProgressQuizzes, config, state).raised,
                     state)>>
    /\ UNCHANGED <<histVars, quizVars>>

\* Next is clicked while the quota is exceeded: nextQuestion sets the index
\* (lines 218-230), Quiz renders and its save effect calls saveQuizState, whose
\* exception leaves the effect; React has no error boundary to render instead
\* and unmounts the application
nextQuestionQuotaExceeded ==
    /\ Rendered
    /\ currentQuestionIndex < Len(currentQuestions) - 1
    /\ ~NextDisabled
    /\ startTime # JNull
    /\ saveQuizStateQuotaExceeded(storage, quizHookIndex, quizConfig, JObj).raised
    /\ route' = "error"
    /\ Unmount
    /\ calls' = <<CallRecord("saveEffect", quizConfig, TRUE, JNum(currentQuestionIndex + 1))>>
    /\ UNCHANGED <<storeVars, histVars, emitted, finished>>

NextQuota ==
    \/ \E config \in SessionConfigs : StartQuiz(config)
    \/ \E value \in {"A", "B", "C"} : handleOptionChange(value)
    \/ handleCheckButtonClick
    \/ onNextClick
    \/ onPrevClick
    \/ onBack
    \/ \E config \in StoreConfigs, state \in NoIdentityStates : QuotaSave(config, state)
    \/ nextQuestionQuotaExceeded

SpecQuota == Init /\ [][NextQuota]_vars

\* C20: when the write of a save fails, the failure is caught and does not
\* reach the caller, the index in memory holds the state that was to be saved,
\* and the session goes on showing its question.
WriteFailureCaught ==
    calls # <<>> =>
        /\ ~calls[1].raised
        /\ (calls[1].op = "save" /\ calls[1].result # JNull) =>
               /\ HasItem(inProgressQuizzes, getQuizStateKey(calls[1].config))
               /\ inProgressQuizzes[getQuizStateKey(calls[1].config)] = calls[1].result
        /\ calls[1].op = "saveEffect" => route # "error"

\* ------------------------------------------------------------------------
\* A quiz is started and the list of the catalog is looked at (SpecInitialize)
\* ------------------------------------------------------------------------
\* lines 109-110: Array.prototype.sort sorts in place and returns its array;
\* it is applied to the copy [...questions], so the list getQuizItems
\* returned is left as it was
SortOfCopy(questions, order) == [questions |-> questions, shuffledQuestions |-> order]

\* StartQuiz, with the list getQuizItems returned as it is after the load effect
StartQuizFromCatalog(config) ==
    /\ route = "home"
    /\ now < MaxClock
    /\ \E order \in ShuffledOrders(getQuizItems(config.courseId, config.topicId)) :
          /\ MountQuiz(config,
                       LoadEffect(loadAllStatesFromStorage(storage).store, config,
                                  SortOfCopy(getQuizItems(config.courseId, config.topicId),
                                             order).shuffledQuestions, now),
                       loadAllStatesFromStorage(storage).states)
          /\ calls' = <<[op |-> "mount",
                         questions |-> SortOfCopy(getQuizItems(config.courseId, config.topicId),
                                                  order).questions]>>
    /\ route' = "quiz"
    /\ finished' = finished \ {config}
    /\ now' = now + 1
    /\ UNCHANGED <<inProgressQuizzes, resultsHistory, emitted>>

NextInitialize ==
    \/ \E config \in SessionConfigs : StartQuizFromCatalog(config)
    \/ \E value \in {"A", "B", "C"} : handleOptionChange(value)
    \/ handleCheckButtonClick
    \/ onNextClick
    \/ onPrevClick
    \/ onBack

SpecInitialize == Init /\ [][NextInitialize]_vars

\* the questions of the catalog for a course and a topic, in the catalog's order
CatalogQuestions(courseId, topicId) ==
    LET Wanted(item) == topicId = NullStr \/ item.topic = topicId
    IN  IF courseId = CourseDemo THEN SelectSeq(Courses[1].quizItems, Wanted) ELSE <<>>

\* two lists hold the same elements the same number of times
SameMultiset(a, b) ==
    /\ Len(a) = Len(b)
    /\ \A x \in Range(a) \cup Range(b) :
           Cardinality({i \in 1..Len(a) : a[i] = x}) = Cardinality({i \in 1..Len(b) : b[i] = x})

\* storage holds under the identity of the config a state the load accepts,
\* with at least one question id
ValidSavedState(store, config) ==
    LET key == PrescribedKey(config.courseId, config.topicId)
    IN  /\ key \in DOMAIN store
        /\ store[key].t = "json"
        /\ store[key].v.t = "state"
        /\ store[key].v.currentIndex.t = "num"
        /\ store[key].v.userAnswers.t = "arr"
        /\ store[key].v.questionIds.t = "arr"
        /\ Len(store[key].v.userAnswers.v) = Len(store[key].v.questionIds.v)
        /\ Len(store[key].v.questionIds.v) > 0

\* C21: a quiz started without a valid saved state has the questions of the
\* catalog for its course and topic in some order (the same questions, each as
\* often as in the catalog), the list of the catalog is left as it was, the
\* index is 0, every answer and status is null, every checked flag is false,
\* feedback is hidden and the start time is the time of the start.
InitializeNewSession ==
    [][(route = "home" /\ route' = "quiz" /\ ~ValidSavedState(storage, quizConfig')) =>
          /\ SameMultiset(currentQuestions',
                          CatalogQuestions(quizConfig'.courseId, quizConfig'.topicId))
          /\ calls'[1].questions = CatalogQuestions(quizConfig'.courseId, quizConfig'.topicId)
          /\ currentQuestionIndex' = 0
          /\ Len(userAnswers') = Len(currentQuestions')
          /\ Len(answerStatuses') = Len(currentQuestions')
          /\ Len(checkedAnswers') = Len(currentQuestions')
          /\ \A i \in 1..Len(currentQuestions') :
                 userAnswers'[i] = JNull /\ answerStatuses'[i] = "null" /\ ~checkedAnswers'[i]
          /\ ~showFeedbackForSingleChoice'
          /\ startTime' = JNum(now)]_vars

\* a new session of the full quiz whose questions are in the reverse of the
\* catalog's order
InitializeNewSessionWitness ==
    /\ route = "quiz" /\ isLoaded
    /\ calls # <<>> /\ calls[1].op = "mount"
    /\ calls[1].questions = Courses[1].quizItems
    /\ currentQuestions = <<Courses[1].quizItems[2], Courses[1].quizItems[1]>>
    /\ startTime = JNum(1)
    /\ userAnswers = <<JNull, JNull>>
    /\ currentQuestionIndex = 0

\* ------------------------------------------------------------------------
\* A quiz is left and opened again (SpecResume)
\* ------------------------------------------------------------------------
\* Quit Quiz, then the same quiz is selected again on the home page: onBack
\* unmounts Quiz, HomePage reads the index again, and Quiz is mounted for the
\* same config
onBackAndStartAgain ==
    /\ Rendered
    /\ \E order \in ShuffledOrders(getQuizItems(quizConfig.courseId, quizConfig.topicId)) :
          MountQuiz(quizConfig,
                    LoadEffect(loadAllStatesFromStorage(
                                   loadAllStatesFromStorage(storage).store).store,
                               quizConfig, order, now),
                    loadAllStatesFromStorage(loadAllStatesFromStorage(storage).store).states)
    /\ inProgressQuizzes' = loadAllStatesFromStorage(storage).states
    /\ calls' = <<[op |-> "startAgain"]>>
    /\ UNCHANGED <<route, histVars, emitted, finished>>

NextResume ==
    \/ \E config \in SessionConfigs : StartQuiz(config)
    \/ \E value \in {"A", "B", "C"} : handleOptionChange(value)
    \/ handleCheckButtonClick
    \/ onNextClick
    \/ onPrevClick
    \/ onBack
    \/ onBackAndStartAgain

SpecResume == Init /\ [][NextResume]_vars

\* C22: a session that shows a question, left and opened again for the same
\* config, has the questions in the same order, the same index, the same
\* answers (sets for multi-select questions), the same checked flags and the
\* same start time as when it was left.
ResumeRestoresSession ==
    [][onBackAndStartAgain =>
          /\ currentQuestions' = currentQuestions
          /\ currentQuestionIndex' = currentQuestionIndex
          /\ userAnswers' = userAnswers
          /\ checkedAnswers' = checkedAnswers
          /\ startTime' = startTime]_vars

\* the state stored under the identity of a config
StoredState(store, config) == store[PrescribedKey(config.courseId, config.topicId)].v

\* a quiz is mounted from a storage that holds a valid state for its config,
\* every question id of which the catalog resolves
ResumesStoredState ==
    /\ \/ (route = "home" /\ route' = "quiz")
       \/ onBackAndStartAgain
    /\ ValidSavedState(storage, quizConfig')
    /\ Len(currentQuestions') = Len(StoredState(storage, quizConfig').questionIds.v)

\* the status the stored state prescribes for question i of the resumed session
PrescribedStatus(stored, question, i) ==
    LET answer == stored.userAnswers.v[i]
        correct == {question.correctAnswer[k] : k \in 1..Len(question.correctAnswer)}
    IN  IF Len(question.correctAnswer) > 1
        THEN IF stored.checkedAnswers.t = "arr" /\ Len(stored.checkedAnswers.v) >= i
                /\ stored.checkedAnswers.v[i]
             THEN IF answer.t = "arr" /\ Range(answer.v) = correct
                  THEN "correct" ELSE "incorrect"
             ELSE "null"
        ELSE IF answer.t = "str"
             THEN IF answer.v \in correct THEN "correct" ELSE "incorrect"
             ELSE "null"

\* C23: after a resume the status of a single-select question with a stored
\* answer is correct exactly when the answer is among the correct answers; the
\* status of a multi-select question is null unless its checked flag was
\* stored true, and then it is computed from the stored answer by exact match.
StatusesAfterResume ==
    [][ResumesStoredState =>
          \A i \in 1..Len(currentQuestions') :
              StatusAt(answerStatuses', i - 1) =
                  PrescribedStatus(StoredState(storage, quizConfig'), currentQuestions'[i], i)]_vars

\* ------------------------------------------------------------------------
\* The application is opened on a stored state with any index
\* (SpecPersistedIndex)
\* ------------------------------------------------------------------------
\* the greatest index stored
MaxStoredIndex == 3

\* the indices a stored state can hold: JSON has every number
PersistedIndices == (0 - 1)..MaxStoredIndex

\* states of the full quiz as the application saves them, with any index
PersistedStates ==
    {SavedQuizState(JNum(index), JArr(answers), JNum(0), JArr(ids), CourseDemo, NullStr,
                    JArr(<<FALSE, FALSE>>)) :
        index \in PersistedIndices,
        answers \in {<<JNull, JNull>>, <<JStr("A"), JStr("B")>>},
        ids \in {<<"q1", "q2">>, <<"q2", "q1">>}}

InitPersistedIndex ==
    /\ \E state \in PersistedStates :
          LET seed == SetItem(EmptyMap, KeyOf(NullStr), JSONStringify(state))
          IN  /\ storage = WriteHistory(loadAllStatesFromStorage(seed).store, JArr(<<>>))
              /\ inProgressQuizzes = loadAllStatesFromStorage(seed).states
    /\ resultsHistory = JArr(<<>>)
    /\ now = 1
    /\ calls = <<>>
    /\ NoQuizYet

SpecPersistedIndex == InitPersistedIndex /\ [][Next]_vars

\* C24: after a resume from a stored state that the load accepts the index is
\* at least 0 and below the number of questions loaded; a stored index that is
\* negative or not below that number is replaced by 0.
ResumedIndexInRange ==
    [][(route = "home" /\ route' = "quiz" /\ ValidSavedState(storage, quizConfig')) =>
          /\ currentQuestionIndex' >= 0
          /\ currentQuestionIndex' < Len(currentQuestions')
          /\ currentQuestionIndex' =
                 IF StoredState(storage, quizConfig').currentIndex.v
                        \in 0..(Len(currentQuestions') - 1)
                 THEN StoredState(storage, quizConfig').currentIndex.v
                 ELSE 0]_vars

\* ------------------------------------------------------------------------
\* nextQuestion and prevQuestion called at any question (SpecNavigate)
\* ------------------------------------------------------------------------
\* nextQuestion() called while a question is shown
callNextQuestion ==
    /\ Rendered
    /\ nextQuestion
    /\ calls' = <<[op |-> "nextQuestion", from |-> currentQuestionIndex]>>

\* prevQuestion() called while a question is shown
callPrevQuestion ==
    /\ Rendered
    /\ prevQuestion
    /\ calls' = <<[op |-> "prevQuestion", from |-> currentQuestionIndex]>>

NextNavigate ==
    \/ \E config \in SessionConfigs : StartQuiz(config)
    \/ \E value \in {"A", "B", "C"} : handleOptionChange(value)
    \/ handleCheckButtonClick
    \/ callNextQuestion
    \/ callPrevQuestion

SpecNavigate == Init /\ [][NextNavigate]_vars

\* C25: whatever next and prev operations are made on a session that shows a
\* question, the index stays at least 0 and at most the number of questions
\* less 1; next at the last question and prev at the first leave the index as
\* it is, and every other next adds 1 to it and every other prev takes 1 off.
NavigationKeepsIndexInRange ==
    /\ []((route = "quiz" /\ isLoaded /\ Len(currentQuestions) > 0) =>
              (0 <= currentQuestionIndex /\ currentQuestionIndex <= Len(currentQuestions) - 1))
    /\ [][/\ callNextQuestion =>
                currentQuestionIndex' =
                    IF currentQuestionIndex = Len(currentQuestions) - 1
                    THEN currentQuestionIndex ELSE currentQuestionIndex + 1
          /\ callPrevQuestion =>
                currentQuestionIndex' =
                    IF currentQuestionIndex = 0
                    THEN currentQuestionIndex ELSE currentQuestionIndex - 1]_vars

\* next was called at the last of two questions and left the index as it was
NavigationKeepsIndexInRangeWitness ==
    /\ route = "quiz" /\ isLoaded
    /\ Len(currentQuestions) = 2
    /\ calls # <<>> /\ calls[1].op = "nextQuestion"
    /\ calls[1].from = 1
    /\ currentQuestionIndex = 1

SavedLengthsAgree ==
    (route = "quiz" /\ isLoaded /\ Len(currentQuestions) > 0) =>
        LET saved == StoredState(storage, quizConfig)
        IN  /\ Len(saved.userAnswers.v) = Len(saved.questionIds.v)
            /\ Len(saved.checkedAnswers.v) = Len(saved.questionIds.v)

\* C28: the entry of an identity is created by the first answer, check or
\* navigation of a session and not before: when a quiz is started and storage
\* holds no entry for its identity, it holds none once the session is
\* initialized either, so a session left untouched leaves no entry.
NoEntryBeforeFirstMutation ==
    [][(/\ route = "home" /\ route' = "quiz"
        /\ PrescribedKey(quizConfig'.courseId, quizConfig'.topicId) \notin DOMAIN storage) =>
          PrescribedKey(quizConfig'.courseId, quizConfig'.topicId) \notin DOMAIN storage']_vars

\* ------------------------------------------------------------------------
\* loadAllStatesFromStorage called on what storage holds: SpecLoadAll
\* ------------------------------------------------------------------------
\* the keys storage can hold: the full quiz and a topic of the catalog course,
\* a quiz of a course that is not in the catalog, a key outside the namespace
LoadAllKeys == {KeyOf(NullStr), KeyOf(TopicT1), KeyForeignCourse, KeyNotPrefixed}

\* what can be stored under a key: no JSON, the empty string, JSON that is no
\* state, a state without a numeric index or without an answer list, a state
\* loadAll accepts
LoadAllValues ==
    {Garbage, EmptyText} \cup
    {[t |-> "json", v |-> x] : x \in
        {JNull, JNum(5), BaseStored,
         [BaseStored EXCEPT !.currentIndex = JNull],
         [BaseStored EXCEPT !.userAnswers = JUndef]}}

LoadAllSeeds == UNION {[keys -> LoadAllValues] : keys \in SUBSET LoadAllKeys}

\* the hook before its effect has run: the index is {} (line 18)
InitLoadAll ==
    /\ storage \in LoadAllSeeds
    /\ inProgressQuizzes = EmptyMap
    /\ resultsHistory = JArr(<<>>)
    /\ now = 1
    /\ calls = <<>>
    /\ NoQuizYet

\* setInProgressQuizzes(loadAllStatesFromStorage()): the effect of lines 69-71,
\* and every later call of loadAllStatesFromStorage by a page
callLoadAll ==
    /\ Len(calls) < 2
    /\ storage' = loadAllStatesFromStorage(storage).store
    /\ inProgressQuizzes' = loadAllStatesFromStorage(storage).states
    /\ calls' = Append(calls, [op |-> "loadAll", before |-> storage,
                               result |-> loadAllStatesFromStorage(storage).states])
    /\ UNCHANGED <<histVars, quizVars>>

NextLoadAll == callLoadAll

SpecLoadAll == InitLoadAll /\ [][NextLoadAll]_vars

\* the stored text is JSON with a numeric currentIndex and a list userAnswers
ParsesAsState(raw) ==
    /\ raw.t = "json"
    /\ raw.v.t = "state"
    /\ raw.v.currentIndex.t = "num"
    /\ raw.v.userAnswers.t = "arr"

\* the identities of the catalog course: its full quiz and its topics
CatalogKeys == {KeyOf(NullStr), KeyOf(TopicT1), KeyOf(TopicNone)}

\* C29: a call of loadAll returns exactly the entries under a catalog identity
\* whose value parses as JSON with a numeric currentIndex and a list
\* userAnswers; every other entry under a catalog identity is deleted from
\* storage; no other key is changed; a second call returns the same map and
\* changes nothing
LoadAllSelfHeals ==
    [][callLoadAll =>
        LET good == {k \in CatalogKeys \cap DOMAIN storage : ParsesAsState(storage[k])}
        IN  /\ DOMAIN inProgressQuizzes' = good
            /\ \A k \in good : inProgressQuizzes'[k] = storage[k].v
            /\ DOMAIN storage' = (DOMAIN storage) \ ((CatalogKeys \cap DOMAIN storage) \ good)
            /\ \A k \in DOMAIN storage' : storage'[k] = storage[k]
            /\ (calls # <<>> => /\ inProgressQuizzes' = inProgressQuizzes
                                /\ storage' = storage)]_vars

\* ------------------------------------------------------------------------
\* saveQuizState called on a store that holds other entries: SpecSave
\* ------------------------------------------------------------------------
\* the keys storage can hold before the call
SaveKeys == {KeyOf(NullStr), KeyOf(TopicT1), KeyForeignCourse, KeyQuizResults}

\* an entry of the index: a state as a session holds it
IndexState ==
    SavedQuizState(JNum(0), JArr(<<JSet(<<"A">>)>>), JNum(1), JArr(<<"q2">>), CourseDemo,
                   NullStr, JArr(<<FALSE>>))

\* the configs of the calls: the full quiz, a topic, a config without a course
SaveConfigs == StoreConfigs \cup {QuizConfig(<<>>, NullStr, "full")}

\* the states of the calls: null, the states of one question, a state of two
\* questions with a set and a string
SaveStates ==
    {JNull} \cup StoreStates(1) \cup
    {SavedQuizState(JNum(1), JArr(<<JSet(<<"B", "A">>), JStr("A")>>), JNum(1),
                    JArr(<<"q2", "q1">>), CourseDemo, NullStr, JArr(<<TRUE, FALSE>>))}

\* storage holds some of the keys, the index some of the quizzes of the catalog
InitSave ==
    /\ \E keys \in SUBSET SaveKeys :
          /\ storage = [k \in keys |-> ClearValue(k)]
          /\ \E indexed \in SUBSET (keys \cap {KeyOf(NullStr), KeyOf(TopicT1)}) :
                inProgressQuizzes = [k \in indexed |-> IndexState]
    /\ resultsHistory = JArr(<<>>)
    /\ now = 1
    /\ calls = <<>>
    /\ NoQuizYet

\* saveQuizState(config, state)
callSaveQuizState(config, state) ==
    /\ NoCallYet
    /\ LET r == saveQuizState(storage, inProgressQuizzes, config, state)
       IN  /\ storage' = r.store
           /\ inProgressQuizzes' = r.index
    /\ calls' = <<[op |-> "saveQuizState", config |-> config, state |-> state,
                   before |-> storage, indexBefore |-> inProgressQuizzes]>>
    /\ UNCHANGED <<histVars, quizVars>>

NextSave == \E config \in SaveConfigs, state \in SaveStates : callSaveQuizState(config, state)

SpecSave == InitSave /\ [][NextSave]_vars

\* the two maps agree on every key but the given ones
SameOutside(map, before, keys) ==
    /\ (DOMAIN map) \ keys = (DOMAIN before) \ keys
    /\ \A k \in (DOMAIN map) \ keys : map[k] = before[k]

\* the value written for an answer: the array of a set's elements, every other
\* answer as it was passed
WrittenAs(written, passed) ==
    IF passed.t = "set" THEN written.t = "arr" /\ written.v = passed.v
    ELSE written.t = passed.t /\ written = passed

\* C30: a call of save changes nothing but the entry of the config's key, in
\* storage and in the index (nothing at all for a config without a course);
\* with state null the key is in neither afterwards; with a state the key
\* holds in storage the state with every set answer as an array, and in the
\* index the state as it was passed
SaveFrame ==
    (calls # <<>> /\ calls[1].op = "saveQuizState") =>
        LET config == calls[1].config
            state == calls[1].state
            key == PrescribedKey(config.courseId, config.topicId)
        IN  IF config.courseId = <<>>
            THEN storage = calls[1].before /\ inProgressQuizzes = calls[1].indexBefore
            ELSE /\ SameOutside(storage, calls[1].before, {key})
                 /\ SameOutside(inProgressQuizzes, calls[1].indexBefore, {key})
                 /\ state = JNull =>
                        key \notin DOMAIN storage /\ key \notin DOMAIN inProgressQuizzes
                 /\ state # JNull =>
                        /\ key \in DOMAIN storage
                        /\ storage[key].t = "json"
                        /\ storage[key].v.t = "state"
                        /\ Len(storage[key].v.userAnswers.v) = Len(state.userAnswers.v)
                        /\ \A i \in 1..Len(state.userAnswers.v) :
                              WrittenAs(storage[key].v.userAnswers.v[i], state.userAnswers.v[i])
                        /\ storage[key].v.currentIndex = state.currentIndex
                        /\ storage[key].v.questionIds = state.questionIds
                        /\ key \in DOMAIN inProgressQuizzes
                        /\ inProgressQuizzes[key] = state

\* a state with a set answer was saved for the topic while storage and the
\* index held the full quiz, and storage the history and a foreign quiz
SaveFrameWitness ==
    /\ calls # <<>>
    /\ calls[1].op = "saveQuizState"
    /\ calls[1].config = QuizConfig(CourseDemo, TopicT1, "topic")
    /\ calls[1].state # JNull
    /\ \E i \in 1..Len(calls[1].state.userAnswers.v) : calls[1].state.userAnswers.v[i].t = "set"
    /\ DOMAIN calls[1].before = SaveKeys
    /\ DOMAIN calls[1].indexBefore = {KeyOf(NullStr), KeyOf(TopicT1)}
    /\ DOMAIN inProgressQuizzes = {KeyOf(NullStr), KeyOf(TopicT1)}
    /\ inProgressQuizzes[KeyOf(NullStr)] = IndexState

\* ------------------------------------------------------------------------
\* The answers load returns (SpecStore)
\* ------------------------------------------------------------------------
\* load returned a state; storage still holds the text it was read from
LoadReturnedState ==
    /\ Len(calls) = 2
    /\ calls[2].op = "load"
    /\ calls[2].result # JNull

\* C31: in a state load returns, the answer at position i is a set iff the
\* stored value is an array and the question the catalog now resolves for
\* questionIds[i] has more than one correct answer (the set of the array's
\* elements); otherwise it is the stored value if that is a string, and null
\* in every other case
AnswerReconstruction ==
    LoadReturnedState =>
        LET stored == storage[getQuizStateKey(calls[2].config)].v
            loaded == calls[2].result
        IN  /\ Length(loaded.userAnswers) = Length(stored.userAnswers)
            /\ \A i \in 1..Length(stored.userAnswers) :
                  LET a == stored.userAnswers.v[i]
                      b == loaded.userAnswers.v[i]
                      multi == IsCatalogMulti(calls[2].config.courseId, stored.questionIds.v[i])
                  IN  /\ IsSet(b) <=> (IsArray(a) /\ multi)
                      /\ IsSet(b) => Range(b.v) = Range(a.v)
                      /\ (~IsSet(b) /\ IsString(a)) => b = a
                      /\ (~IsSet(b) /\ ~IsString(a)) => b = JNull

\* a state was loaded whose stored answers are an array on the multi-select
\* question, an array on the single-select question and an array on a question
\* the catalog does not resolve
AnswerReconstructionWitness ==
    /\ LoadReturnedState
    /\ LET stored == storage[getQuizStateKey(calls[2].config)].v
       IN  /\ \E i \in 1..Length(stored.userAnswers) :
                 /\ IsArray(stored.userAnswers.v[i]) /\ stored.questionIds.v[i] = "q2"
                 /\ IsSet(calls[2].result.userAnswers.v[i])
           /\ \E i \in 1..Length(stored.userAnswers) :
                 /\ IsArray(stored.userAnswers.v[i]) /\ stored.questionIds.v[i] \in {"q1", "q9"}
                 /\ calls[2].result.userAnswers.v[i] = JNull

\* ------------------------------------------------------------------------
\* finishQuiz called in every state of a mounted Quiz: SpecFinish
\* ------------------------------------------------------------------------
\* a mutant: the question list is not looked at (currentQuestions.length === 0
\* of line 247 left out)
callFinishQuizWithoutQuestions ==
    /\ route = "quiz"
    /\ calls' = <<[op |-> "finishQuiz", loaded |-> isLoaded]>>
    /\ IF startTime = JNull \/ ~isLoaded
       THEN UNCHANGED <<storeVars, histVars, quizVars>>
       ELSE /\ LET results == FinalResults(quizConfig, currentQuestions, userAnswers,
                                           startTime, now, now)
                   cleared == ClearOnFinish(storage, quizHookIndex, quizConfig)
                   history == IF IsNumber(results.timestamp)
                              THEN handleAddResult(resultsHistory, results, now)
                              ELSE resultsHistory
               IN  /\ emitted' = [t |-> "emitted", results |-> results, config |-> quizConfig,
                                  questions |-> currentQuestions, answers |-> userAnswers,
                                  saved |-> loadQuizState(cleared.store, quizConfig).result # JNull]
                   /\ resultsHistory' = history
                   /\ storage' = WriteHistory(cleared.store, history)
            /\ route' = "results"
            /\ finished' = finished \cup {quizConfig}
            /\ Unmount
            /\ UNCHANGED <<inProgressQuizzes, now>>

\* finishQuiz() (lines 246-294), whatever is rendered: it returns at line 247,
\* or computes the results, clears the saved state and calls onComplete
callFinishQuiz ==
    /\ route = "quiz"
    /\ calls' = <<[op |-> "finishQuiz", loaded |-> isLoaded]>>
    /\ IF startTime = JNull \/ Len(currentQuestions) = 0 \/ ~isLoaded
       THEN UNCHANGED <<storeVars, histVars, quizVars>>
       ELSE /\ LET results == FinalResults(quizConfig, currentQuestions, userAnswers,
                                           startTime, now, now)
                   cleared == ClearOnFinish(storage, quizHookIndex, quizConfig)
                   history == IF IsNumber(results.timestamp)
                              THEN handleAddResult(resultsHistory, results, now)
                              ELSE resultsHistory
               IN  /\ emitted' = [t |-> "emitted", results |-> results, config |-> quizConfig,
                                  questions |-> currentQuestions, answers |-> userAnswers,
                                  saved |-> loadQuizState(cleared.store, quizConfig).result # JNull]
                   /\ resultsHistory' = history
                   /\ storage' = WriteHistory(cleared.store, history)
            /\ route' = "results"
            /\ finished' = finished \cup {quizConfig}
            /\ Unmount
            /\ UNCHANGED <<inProgressQuizzes, now>>

NextFinish ==
    \/ \E config \in SessionConfigs : QuizPageMount(config)
    \/ LoadStep
    \/ \E value \in {"A", "B", "C"} : handleOptionChange(value)
    \/ handleCheckButtonClick
    \/ onNextClick
    \/ callFinishQuiz
    \/ onBackButton
    \/ onNavigateHome

SpecFinish == Init /\ [][NextFinish]_vars

\* the precondition of finish fails
FinishRefused == startTime = JNull \/ currentQuestions = <<>> \/ ~isLoaded

\* C32: a call of finish while startTime is not set, the session has no
\* questions or loading has not completed emits no result, leaves storage and
\* the history as they are and leaves the session state unchanged
FinishPrecondition ==
    [][(callFinishQuiz /\ FinishRefused) =>
          /\ emitted' = emitted
          /\ storage' = storage
          /\ resultsHistory' = resultsHistory
          /\ route' = "quiz"
          /\ UNCHANGED <<quizConfig, quizHookIndex, currentQuestions, currentQuestionIndex,
                         userAnswers, startTime, showFeedbackForSingleChoice, answerStatuses,
                         checkedAnswers, isLoaded, finished, inProgressQuizzes>>]_vars

\* finish was called on a loaded session without questions while storage
\* held a saved state, and the session is still there
FinishPreconditionWitness ==
    /\ calls = <<[op |-> "finishQuiz", loaded |-> TRUE]>>
    /\ route = "quiz"
    /\ isLoaded
    /\ currentQuestions = <<>>
    /\ startTime # JNull
    /\ KeyOf(NullStr) \in DOMAIN storage
    /\ emitted = NoEmission

\* ------------------------------------------------------------------------
\* The statuses of a session and the scoring of finish (SpecEngine)
\* ------------------------------------------------------------------------
\* C33: in every state of a loaded session, every question whose status is
\* not null has the status correct exactly when the isCorrect that finishQuiz
\* computes for the question from its current answer is true
InterimMatchesFinal ==
    (route = "quiz" /\ isLoaded) =>
        \A i \in 1..Len(currentQuestions) :
            StatusAt(answerStatuses, i - 1) # "null" =>
                (StatusAt(answerStatuses, i - 1) = "correct"
                     <=> AnswerDetails(currentQuestions, userAnswers)[i].isCorrect)

\* a session of two questions in which the single-select question is
\* answered correctly and the multi-select question was checked with a set
\* that holds every correct option and one more
InterimMatchesFinalWitness ==
    /\ route = "quiz"
    /\ isLoaded
    /\ Len(currentQuestions) = 2
    /\ \E i \in 1..2 :
          /\ ~isMultiSelect(currentQuestions[i].correctAnswer)
          /\ StatusAt(answerStatuses, i - 1) = "correct"
    /\ \E i \in 1..2 :
          /\ isMultiSelect(currentQuestions[i].correctAnswer)
          /\ StatusAt(answerStatuses, i - 1) = "incorrect"
          /\ AnswerAt(userAnswers, i - 1) = JSet(<<"A", "B", "C">>)

\* ------------------------------------------------------------------------
\* A result appended again (SpecHistory)
\* ------------------------------------------------------------------------
\* no two entries of the list have the same timestamp
DistinctTimestamps(list) ==
    \A i, j \in 1..Len(list) : i # j => list[i].timestamp # list[j].timestamp

\* C34: no two entries of the history, in the state of App and in storage,
\* share a timestamp, and appending the result that was appended in the step
\* before leaves the history as it is
DuplicateSubmissionGuard ==
    /\ [](DistinctTimestamps(resultsHistory.v) /\ DistinctTimestamps(StoredHistory.v))
    /\ [][(calls # <<>> /\ calls' # <<>> /\ now' = now
              /\ calls'[1].timestamp = calls[1].timestamp) =>
          (resultsHistory' = resultsHistory /\ storage' = storage)]_vars

\* the first result was appended again after the second one: the history
\* holds the two results
DuplicateSubmissionGuardWitness ==
    /\ calls = <<[op |-> "append", timestamp |-> 1]>>
    /\ now = 3
    /\ Len(resultsHistory.v) = 2
    /\ resultsHistory.v[1] = ResultAt(1)
    /\ StoredHistory = resultsHistory

\* ------------------------------------------------------------------------
\* The view over a malformed history (SpecLatest)
\* ------------------------------------------------------------------------
\* C35: for every stored list the view is computed without an error, entries
\* that are null, have no string courseId, no timestamp that parses, no numeric
\* score or totalQuestions or no topicId being skipped or handled, and its keys
\* are the identities of the valid entries
LatestNeverFails ==
    (calls # <<>> /\ calls[Len(calls)].op = "latest") =>
        LET view == calls[Len(calls)].result
            list == resultsHistory.v
            valid == {i \in 1..Len(list) : IsValidResult(list[i])}
        IN  /\ view.ok
            /\ DOMAIN view.map = {IdentityOf(list[i]) : i \in valid}

\* ------------------------------------------------------------------------
\* The answers of confirmed questions (SpecResume)
\* ------------------------------------------------------------------------
\* question i of the session is confirmed: a single-select question with an
\* answer and its status, a multi-select question that was checked
Confirmed(i) ==
    IF isMultiSelect(currentQuestions[i].correctAnswer)
    THEN FlagAt(checkedAnswers, i - 1)
    ELSE AnswerAt(userAnswers, i - 1) \notin {JNull, JUndef} /\ StatusAt(answerStatuses, i - 1) # "null"

\* C36: under the gating of Question no step of a session changes the
\* recorded answer of a confirmed question: not an option change, not a
\* navigation away and back, not leaving the quiz and resuming it
AnswerLockout ==
    [][(route = "quiz" /\ isLoaded /\ route' = "quiz" /\ isLoaded' /\ quizConfig' = quizConfig) =>
          \A i \in 1..Len(currentQuestions) :
              Confirmed(i) =>
                  \E j \in 1..Len(currentQuestions') :
                      /\ currentQuestions'[j].id = currentQuestions[i].id
                      /\ AnswerAt(userAnswers', j - 1) = AnswerAt(userAnswers, i - 1)]_vars

\* ------------------------------------------------------------------------
\* A resume from a state with an id the catalog does not resolve (Spec)
\* ------------------------------------------------------------------------
\* the answer a session holds for the value stored at position i
AnswerSavedAt(stored, courseId, i) ==
    LET a == stored.userAnswers.v[i]
    IN  IF a.t = "arr" /\ IsCatalogMulti(courseId, stored.questionIds.v[i]) THEN JSet(a.v)
        ELSE IF a.t = "str" THEN a ELSE JNull

\* the checked flag stored at position i, false when none is stored
CheckedSavedAt(stored, i) ==
    IF stored.checkedAnswers.t = "arr" /\ i \in 1..Len(stored.checkedAnswers.v)
    THEN stored.checkedAnswers.v[i] ELSE FALSE

\* C37: a quiz opened on a valid saved state one of whose question ids the
\* catalog does not resolve is resumed with the resolvable questions in the
\* saved order, and every one of them has the answer and the checked flag
\* that were saved at the position of its own id
ResumeWithUnresolvableId ==
    [][LET stored == StoredState(storage, quizConfig')
           kept == {i \in 1..Len(stored.questionIds.v) :
                       \E q \in 1..Len(Courses[1].quizItems) :
                           Courses[1].quizItems[q].id = stored.questionIds.v[i]}
       IN  (/\ route = "home" /\ route' = "quiz"
            /\ ValidSavedState(storage, quizConfig')
            /\ kept # 1..Len(stored.questionIds.v)) =>
              /\ Len(currentQuestions') = Cardinality(kept)
              /\ \A j \in 1..Len(currentQuestions') :
                    \E i \in kept :
                        /\ Cardinality({k \in kept : k < i}) = j - 1
                        /\ currentQuestions'[j].id = stored.questionIds.v[i]
                        /\ AnswerAt(userAnswers', j - 1) =
                               AnswerSavedAt(stored, quizConfig'.courseId, i)
                        /\ FlagAt(checkedAnswers', j - 1) = CheckedSavedAt(stored, i)]_vars

\* ------------------------------------------------------------------------
\* The application opened on an empty storage: SpecFresh
\* ------------------------------------------------------------------------
\* nothing was ever saved: every session is started by the initialization, or
\* resumed from what such a session saved
InitFresh ==
    /\ storage = WriteHistory(EmptyMap, JArr(<<>>))
    /\ inProgressQuizzes = EmptyMap
    /\ resultsHistory = JArr(<<>>)
    /\ now = 1
    /\ calls = <<>>
    /\ NoQuizYet

SpecFresh == InitFresh /\ [][Next]_vars

\* question i of the session has a recorded answer (single-select) or was
\* checked with one (multi-select)
ConfirmedAnswer(i) ==
    /\ AnswerAt(userAnswers, i - 1) \notin {JNull, JUndef}
    /\ isMultiSelect(currentQuestions[i].correctAnswer) => FlagAt(checkedAnswers, i - 1)

\* C38: in a session every question below the current index is confirmed;
\* finishQuiz is reached only on the last question and when it is confirmed;
\* the results emitted have an answer that is not null for every question
GatedProgress ==
    /\ []((route = "quiz" /\ isLoaded) =>
              \A i \in 1..currentQuestionIndex : ConfirmedAnswer(i))
    /\ [](emitted # NoEmission =>
              /\ Len(emitted.results.answers) = Len(emitted.questions)
              /\ \A i \in 1..Len(emitted.results.answers) :
                     emitted.results.answers[i].userAnswer \notin {JNull, JUndef})
    /\ [][(route = "quiz" /\ route' = "results") =>
              /\ currentQuestionIndex = Len(currentQuestions) - 1
              /\ ConfirmedAnswer(Len(currentQuestions))]_vars

\* the results of a quiz of two questions were emitted, the answer of the
\* multi-select question a set
GatedProgressWitness ==
    /\ route = "results"
    /\ emitted # NoEmission
    /\ Len(emitted.results.answers) = 2
    /\ \E i \in 1..2 : IsSet(emitted.results.answers[i].userAnswer)

\* ------------------------------------------------------------------------
\* The index of the home page and what load accepts (Spec)
\* ------------------------------------------------------------------------
\* C39: while the home page is shown, every quiz that the index loadAll built
\* lists as in progress is accepted by load for its config: load returns a
\* state and leaves the key in storage
LoadAllAgreesWithLoad ==
    route = "home" =>
        \A config \in SessionConfigs :
            PrescribedKey(config.courseId, config.topicId) \in DOMAIN inProgressQuizzes =>
                /\ loadQuizState(storage, config).result # JNull
                /\ loadQuizState(storage, config).store = storage

\* ------------------------------------------------------------------------
\* The index the home page shows (Spec)
\* ------------------------------------------------------------------------
\* C40: while the home page is shown, the index of App has an entry for a
\* quiz of the catalog exactly when storage holds under its key JSON with a
\* numeric currentIndex and a list userAnswers, and the entry is that state;
\* a quiz left with a saved state is listed when the home page is reached, a
\* quiz that was finished is not
HomeIndexMatchesStorage ==
    /\ [](route = "home" =>
             /\ DOMAIN inProgressQuizzes =
                    {k \in CatalogKeys \cap DOMAIN storage : ParsesAsState(storage[k])}
             /\ \A k \in DOMAIN inProgressQuizzes : inProgressQuizzes[k] = storage[k].v)
    /\ [][(route = "quiz" /\ route' = "home" /\ isLoaded /\ Len(currentQuestions) > 0) =>
              PrescribedKey(quizConfig.courseId, quizConfig.topicId) \in DOMAIN inProgressQuizzes']_vars
    /\ [][(route = "results" /\ route' = "home") =>
              PrescribedKey(emitted.config.courseId, emitted.config.topicId)
                  \notin DOMAIN inProgressQuizzes']_vars

\* the home page is shown after the quiz of topic t1 was left: the index
\* lists the state the session saved
HomeIndexMatchesStorageWitness ==
    /\ route = "home"
    /\ now = 2
    /\ emitted = NoEmission
    /\ KeyOf(TopicT1) \in DOMAIN inProgressQuizzes
    /\ inProgressQuizzes[KeyOf(TopicT1)].questionIds = JArr(<<"q1">>)
    /\ inProgressQuizzes[KeyOf(TopicT1)].userAnswers = JArr(<<JStr("A")>>)

====
